---- MODULE Spec2Model ----
(***************************************************************************)
(* The trade ledger of revenue_calendar (src/app.py): the session's list   *)
(* of trade entries, its undo stack of JSON snapshots, and the persisted   *)
(* snapshot file, driven by the handlers of main().                        *)
(*                                                                         *)
(* Python dict objects are modelled with their identity: heap maps an      *)
(* object id to the dict's fields and simple_trades is the list of ids,    *)
(* so that an in-place e.update(...) and a copy.deepcopy(e) differ from a  *)
(* value-based lookup and from an aliasing append.  Amounts are integers   *)
(* (finite decimals; NaN and infinities are left out).  List positions are *)
(* 1-based here and 0-based in the source.                                 *)
(***************************************************************************)
EXTENDS Integers, Sequences, FiniteSets, TLC

\* ---- bounds of the model
MaxLedger == 2          \* entries in the ledger
MaxUndo == 2            \* snapshots on the undo stack
MaxFaults == 1          \* swallowed exceptions injected in a faulty run
MaxRefresh == 4         \* refreshes of the master list

\* ---- input domains
Dates == {"2025-10-01", "2025-10-02"}
FormSymbols == {" 7203.T "}
FormBuys == {0}             \* number_input(min_value=0.0)
FormSells == {1}
FormQuantities == {1}
EditSymbols == {""}
EditBuys == {1}             \* number_input without min_value
EditSells == {0}
EditQuantities == {-1}

VARIABLES
    heap,           \* object id -> fields of the dict object
    simple_trades,  \* st.session_state["simple_trades"]: list of object ids
    undo_stack,     \* st.session_state["undo_stack"]: list of JSON texts
    trades_json,    \* content of data/simple_trades.json
    selected,       \* st.session_state["selected"]
    input_visible,  \* st.session_state["input_visible"] (the panel is not
                    \* closed again in this model)
    faults,         \* how many more json.dumps / file writes may raise
    lastOp,         \* the ledger operation that ran last
    undid,          \* for lastOp = "undo": the operation that ran before it
    ret,            \* for lastOp = "undo": what _pop_undo returned
    pre,            \* the ledger as it was before the last mutation
    target,         \* list position of the row that mutation was clicked on
    uploaded,       \* for lastOp = "import": the rows of the file
    session_use_tax,    \* st.session_state['use_tax']
    session_tax_rate,   \* st.session_state['tax_rate'] (None while absent)
    tax_input,      \* the percent last typed into the tax rate input
    raised,         \* the exception the last run reported ("" for none)
    use_tax,        \* main's local use_tax of the last run
    tax_rate,       \* main's local tax_rate of the last run
    totals,         \* main's local totals of the last run: date -> amount
    view_year,      \* main's local view_year of the last run
    view_month,     \* main's local view_month of the last run
    month_total,    \* main's local month_total of the last run
    year_total,     \* main's local year_total of the last run
    term,           \* the text typed into the symbol search
    query,          \* main's local query: the text of the symbol field
    master,         \* the rows load_symbol_master() returns
    quotes,         \* what the remote search answers
    combined,       \* what _search_candidates(term) returned
    items_combined, \* main's local items_combined: the dropdown's symbols
    qnorm,          \* the local qn: the normalised text of the last search
    parsed_rows,    \* the rows _parse_import_csv returned last
    parsed_errs,    \* the errors _parse_import_csv returned last
    csv_text,       \* what _export_csv_text returned last (its data rows)
    load_ret,       \* what _load_trades returned last
    symbols_csv,    \* data/jpx_symbols.csv: the cached master list
    symbols_meta,   \* data/symbols_meta.json: lastUpdated of the cache
    refreshed,      \* what update_symbol_master returned last
    tried,          \* the mirrors that call fetched from, in order
    now             \* the clock: the number of refreshes so far

\* The tax settings of the session.
taxVars == <<session_use_tax, session_tax_rate, tax_input, raised>>

\* The locals of the aggregation; they are followed in SpecTotals only.
runVars == <<use_tax, tax_rate, totals, view_year, view_month,
             month_total, year_total>>

\* The symbol search; it is followed in SpecSearch only.
searchVars == <<term, query, master, quotes, combined, items_combined, qnorm>>

\* Import, export and load on their own; they are followed in SpecData only.
dataVars == <<parsed_rows, parsed_errs, csv_text, load_ret>>

\* The refresh of the master list; it is followed in SpecMaster only.
masterVars == <<symbols_csv, symbols_meta, refreshed, tried, now>>

auxVars == <<taxVars, runVars, searchVars, dataVars, masterVars>>

vars == <<heap, simple_trades, undo_stack, trades_json, selected,
          input_visible, faults, lastOp, undid, ret, pre, target, uploaded,
          auxVars>>

\* ---- helpers
Range(s) == {s[i] : i \in 1..Len(s)}

\* The ledger by value: the fields of each listed object, in list order.
Trades(h, list) == [i \in 1..Len(list) |-> h[list[i]]]

Ledger == Trades(heap, simple_trades)

\* A fresh object id (the smallest one not in use).
NewId(h) == CHOOSE i \in 1..(Cardinality(DOMAIN h) + 1) :
                /\ i \notin DOMAIN h
                /\ \A j \in 1..(i - 1) : j \in DOMAIN h

\* Objects no list element refers to any more are freed; the ids of the
\* remaining ones are renumbered in order of first occurrence in the list
\* (an id has no meaning beyond telling objects apart).
FirstPos(list, id) == CHOOSE j \in 1..Len(list) :
                          /\ list[j] = id
                          /\ \A k \in 1..(j - 1) : list[k] # id

Rank(list, id) == Cardinality({list[k] : k \in 1..FirstPos(list, id)})

Collect(h, list) ==
    [heap |-> [n \in 1..Cardinality(Range(list)) |->
                  h[CHOOSE id \in Range(list) : Rank(list, id) = n]],
     list |-> [j \in 1..Len(list) |-> Rank(list, list[j])]]

\* str.strip() on the symbol inputs of the model.
Strip(s) == IF s = " 7203.T " THEN "7203.T" ELSE s

\* ---- JSON
\* json.dumps of one entry: the values in the dict's key order.
EncodeEntry(t) == <<t.date, t.symbol, t.buy, t.sell, t.quantity, t.profit>>

DecodeEntry(x) == [date |-> x[1], symbol |-> x[2], buy |-> x[3],
                   sell |-> x[4], quantity |-> x[5], profit |-> x[6]]

json_dumps(trades) == [i \in 1..Len(trades) |-> EncodeEntry(trades[i])]

json_loads(text) == [i \in 1..Len(text) |-> DecodeEntry(text[i])]

\* ---- persistence
\* _save_trades: the file holds {items, savedAt}; a failure is swallowed and
\* leaves a truncated file behind (open(.., 'w') truncates before the dump).
save_trades(file, trades, ok) ==
    IF ok THEN [kind |-> "ok", items |-> json_dumps(trades)]
    ELSE [kind |-> "malformed", items |-> <<>>]

\* A load that returns the items field whatever its type.
load_trades_unchecked(file) ==
    IF file.kind \in {"ok", "itemsnotlist"} THEN json_loads(file.items)
    ELSE <<>>

\* _load_trades: the items of a readable file, else the empty list.
load_trades(file) ==
    IF file.kind = "ok" THEN json_loads(file.items) ELSE <<>>

\* First run of a session: restore from the file when the session is empty.
InitialLoad(trades, file) ==
    IF trades = <<>>
    THEN IF load_trades(file) # <<>> THEN load_trades(file) ELSE trades
    ELSE trades

\* ---- undo
\* The handlers that call _push_undo before they change the ledger.
PushOps == {"update", "delete", "duplicate", "import"}

\* _push_undo: append the JSON text of the ledger; a failure is swallowed.
push_undo(stack, trades, ok) ==
    IF ok THEN Append(stack, json_dumps(trades)) ELSE stack

\* Variants of _pop_undo with a slip: the ledger is not replaced; the oldest
\* snapshot is taken; the snapshot is read but left on the stack.
pop_undo_norestore(stack, trades) ==
    IF stack = <<>>
    THEN [ret |-> FALSE, stack |-> stack, trades |-> trades]
    ELSE [ret |-> TRUE,
          stack |-> SubSeq(stack, 1, Len(stack) - 1),
          trades |-> trades]

pop_undo_fifo(stack, trades) ==
    IF stack = <<>>
    THEN [ret |-> FALSE, stack |-> stack, trades |-> trades]
    ELSE [ret |-> TRUE,
          stack |-> Tail(stack),
          trades |-> json_loads(stack[1])]

pop_undo_peek(stack, trades) ==
    IF stack = <<>>
    THEN [ret |-> FALSE, stack |-> stack, trades |-> trades]
    ELSE [ret |-> TRUE,
          stack |-> stack,
          trades |-> json_loads(stack[Len(stack)])]

\* _pop_undo: [ret, stack, trades] after the call.
pop_undo(stack, trades) ==
    IF stack = <<>>
    THEN [ret |-> FALSE, stack |-> stack, trades |-> trades]
    ELSE [ret |-> TRUE,
          stack |-> SubSeq(stack, 1, Len(stack) - 1),
          trades |-> json_loads(stack[Len(stack)])]

\* The swallowed exceptions of one handler run: each of the two calls may
\* fail while the run's fault budget lasts.
Failures(pushed, saved) == (IF pushed THEN 0 ELSE 1) + (IF saved THEN 0 ELSE 1)

Outcomes == IF faults > 0 THEN {TRUE, FALSE} ELSE {TRUE}

Outcome(pushed, saved) ==
    /\ Failures(pushed, saved) <= faults
    /\ faults' = faults - Failures(pushed, saved)

\* ---- tax
\* Python's None and a float.
None == [some |-> FALSE, v |-> 0]
Some(n) == [some |-> TRUE, v |-> n]

\* Rates are counted in hundredths (the percent of the tax rate input); the
\* amounts of the aggregation are multiples of 100, so that rate * a is exact.
RateDen == 100

\* The default of _get_tax_rate, 0.20315, to the hundredth.
DefaultRate == 20

\* _get_tax_rate: the session's tax_rate, else the default; no check of range.
get_tax_rate(rate) == IF rate.some THEN rate.v ELSE DefaultRate

\* Variant that taxes losses as well.
net_after_tax_always(a, rate) == a - (rate * a) \div RateDen

\* _net_after_tax
net_after_tax(a, rate) == IF a > 0 THEN a - (rate * a) \div RateDen ELSE a

\* Variant without min_value and max_value.
NumberInputUnbounded(held, typed, lo, hi) == {typed}

\* st.number_input(min_value=lo, max_value=hi): the value the widget returns
\* after `typed` was entered while it held `held`.  The widget is code of
\* the streamlit library: it returns a value within its bounds, either by
\* keeping the held value or by clamping the typed one.
NumberInput(held, typed, lo, hi) ==
    IF lo <= typed /\ typed <= hi THEN {typed}
    ELSE {held, IF typed < lo THEN lo ELSE hi}

\* ---- aggregation
\* datetime.fromisoformat on the date texts of the model.
fromisoformat(ds) ==
    CASE ds = "2025-10-01" -> [ok |-> TRUE, year |-> 2025, month |-> 10]
      [] ds = "2025-10-02" -> [ok |-> TRUE, year |-> 2025, month |-> 10]
      [] ds = "2025-11-01" -> [ok |-> TRUE, year |-> 2025, month |-> 11]
      [] ds = "2024-10-01" -> [ok |-> TRUE, year |-> 2024, month |-> 10]
      [] OTHER -> [ok |-> FALSE, year |-> 0, month |-> 0]

\* Variant that forgets what the day already holds.
DailyAddOverwrite(tot, d, p) ==
    IF d \in DOMAIN tot THEN [tot EXCEPT ![d] = p] ELSE (d :> p) @@ tot

\* totals[d] = totals.get(d, 0.0) + p
DailyAdd(tot, d, p) ==
    IF d \in DOMAIN tot THEN [tot EXCEPT ![d] = @ + p] ELSE (d :> p) @@ tot

\* The daily totals loop, from entry i on.
RECURSIVE DailyFrom(_, _, _, _, _)
DailyFrom(trades, i, use, rate, tot) ==
    IF i > Len(trades) THEN tot
    ELSE LET d == trades[i].date
             p == IF use THEN net_after_tax(trades[i].profit, rate)
                  ELSE trades[i].profit
         IN IF d = "" THEN DailyFrom(trades, i + 1, use, rate, tot)
            ELSE DailyFrom(trades, i + 1, use, rate, DailyAdd(tot, d, p))

DailyTotals(trades, use, rate) == DailyFrom(trades, 1, use, rate, <<>>)

\* Variants of the month/year step: the month test outside the year test;
\* the year total taken only from the other months.
MonthYearStepUnnested(acc, dt, val, vy, vm) ==
    [year |-> IF dt.year = vy THEN acc.year + val ELSE acc.year,
     month |-> IF dt.month = vm THEN acc.month + val ELSE acc.month]

MonthYearStepElse(acc, dt, val, vy, vm) ==
    IF dt.year = vy
    THEN IF dt.month = vm
         THEN [year |-> acc.year, month |-> acc.month + val]
         ELSE [year |-> acc.year + val, month |-> acc.month]
    ELSE acc

\* One entry with a parsed date dt and amount val added to the totals of the
\* viewed year vy and month vm.
MonthYearStep(acc, dt, val, vy, vm) ==
    IF dt.year = vy
    THEN [year |-> acc.year + val,
          month |-> IF dt.month = vm THEN acc.month + val ELSE acc.month]
    ELSE acc

\* The month/year totals loop, from entry i on.
RECURSIVE MonthYearFrom(_, _, _, _, _, _, _)
MonthYearFrom(trades, i, vy, vm, use, rate, acc) ==
    IF i > Len(trades) THEN acc
    ELSE LET dt == fromisoformat(trades[i].date)
             val == IF use THEN net_after_tax(trades[i].profit, rate)
                    ELSE trades[i].profit
         IN IF ~dt.ok THEN MonthYearFrom(trades, i + 1, vy, vm, use, rate, acc)
            ELSE MonthYearFrom(trades, i + 1, vy, vm, use, rate,
                               MonthYearStep(acc, dt, val, vy, vm))

MonthYearTotals(trades, vy, vm, use, rate) ==
    MonthYearFrom(trades, 1, vy, vm, use, rate, [year |-> 0, month |-> 0])

\* The aggregation locals before they are followed (see SpecTotals).
RunInit ==
    /\ use_tax = TRUE
    /\ tax_rate = DefaultRate
    /\ totals = <<>>
    /\ view_year = 0
    /\ view_month = 0
    /\ month_total = 0
    /\ year_total = 0

\* The tax settings once the first run is through: setdefault("use_tax",
\* True), and the rate input, shown with the default, has stored its value.
TaxInit ==
    /\ session_use_tax = TRUE
    /\ session_tax_rate = Some(get_tax_rate(None))
    /\ tax_input = get_tax_rate(None)
    /\ raised = ""

\* ---- symbol search
\* Text is a sequence of code points, so that normalisation and substring
\* search are computed as the source computes them.

\* OFFLINE_SYMBOLS: (symbol, name).
OFFLINE_SYMBOLS == <<
    <<<<55, 50, 48, 51, 46, 84>>,   \* 7203.T
      <<12488, 12520, 12479, 33258, 21205, 36554>>>>,
    <<<<54, 55, 53, 56, 46, 84>>,   \* 6758.T
      <<12477, 12491, 12540, 12464, 12523, 12540, 12503>>>>,
    <<<<54, 56, 54, 49, 46, 84>>,   \* 6861.T
      <<12461, 12540, 12456, 12531, 12473>>>>,
    <<<<55, 57, 55, 52, 46, 84>>,   \* 7974.T
      <<20219, 22825, 22530>>>>,
    <<<<56, 48, 51, 53, 46, 84>>,   \* 8035.T
      <<26481, 20140, 12456, 12524, 12463, 12488, 12525, 12531>>>>,
    <<<<57, 57, 56, 51, 46, 84>>,   \* 9983.T
      <<12501, 12449, 12540, 12473, 12488, 12522, 12486, 12452, 12522, 12531, 12464>>>>,
    <<<<57, 57, 56, 52, 46, 84>>,   \* 9984.T
      <<12477, 12501, 12488, 12496, 12531, 12463, 12464, 12523, 12540, 12503>>>>,
    <<<<54, 53, 48, 49, 46, 84>>,   \* 6501.T
      <<26085, 31435, 35069, 20316, 25152>>>>,
    <<<<54, 53, 48, 51, 46, 84>>,   \* 6503.T
      <<19977, 33777, 38651, 27231>>>>,
    <<<<54, 57, 56, 49, 46, 84>>,   \* 6981.T
      <<26449, 30000, 35069, 20316, 25152>>>>,
    <<<<54, 57, 53, 52, 46, 84>>,   \* 6954.T
      <<12501, 12449, 12490, 12483, 12463>>>>,
    <<<<55, 55, 53, 49, 46, 84>>,   \* 7751.T
      <<12461, 12516, 12494, 12531>>>>,
    <<<<57, 52, 51, 50, 46, 84>>,   \* 9432.T
      <<65326, 65332, 65332>>>>,
    <<<<57, 52, 51, 51, 46, 84>>,   \* 9433.T
      <<65323, 65316, 65316, 65321>>>>,
    <<<<57, 52, 51, 52, 46, 84>>,   \* 9434.T
      <<12477, 12501, 12488, 12496, 12531, 12463>>>>,
    <<<<56, 51, 49, 54, 46, 84>>,   \* 8316.T
      <<19977, 20117, 20303, 21451, 12501, 12451, 12490, 12531, 12471, 12515, 12523, 12464, 12523, 12540, 12503>>>>,
    <<<<56, 51, 48, 54, 46, 84>>,   \* 8306.T
      <<19977, 33777, 65333, 65318, 65322, 12501, 12451, 12490, 12531, 12471, 12515, 12523, 12539, 12464, 12523, 12540, 12503>>>>,
    <<<<56, 52, 49, 49, 46, 84>>,   \* 8411.T
      <<12415, 12378, 12411, 12501, 12451, 12490, 12531, 12471, 12515, 12523, 12464, 12523, 12540, 12503>>>>,
    <<<<56, 48, 53, 56, 46, 84>>,   \* 8058.T
      <<19977, 33777, 21830, 20107>>>>,
    <<<<56, 48, 51, 49, 46, 84>>,   \* 8031.T
      <<19977, 20117, 29289, 29987>>>>,
    <<<<53, 55, 48, 54, 46, 84>>,   \* 5706.T
      <<19977, 20117, 37329, 23646, 37489, 23665>>>>,
    <<<<53, 55, 49, 51, 46, 84>>,   \* 5713.T
      <<20303, 21451, 37329, 23646, 37489, 23665>>>>,
    <<<<53, 55, 49, 49, 46, 84>>,   \* 5711.T
      <<19977, 33777, 12510, 12486, 12522, 12450, 12523>>>>,
    <<<<53, 55, 49, 52, 46, 84>>,   \* 5714.T
      <<65316, 65327, 65335, 65313, 12507, 12540, 12523, 12487, 12451, 12531, 12464, 12473>>>>,
    <<<<50, 55, 54, 56, 46, 84>>,   \* 2768.T
      <<21452, 26085>>>>,
    <<<<52, 57, 48, 49, 46, 84>>,   \* 4901.T
      <<23500, 22763, 12501, 12452, 12523, 12512, 65320, 65316>>>>,
    <<<<52, 48, 54, 51, 46, 84>>,   \* 4063.T
      <<20449, 36234, 21270, 23398, 24037, 26989>>>>,
    <<<<52, 53, 48, 50, 46, 84>>,   \* 4502.T
      <<27494, 30000, 34220, 21697, 24037, 26989>>>>,
    <<<<52, 53, 48, 51, 46, 84>>,   \* 4503.T
      <<12450, 12473, 12486, 12521, 12473, 35069, 34220>>>>,
    <<<<52, 53, 50, 51, 46, 84>>,   \* 4523.T
      <<12456, 12540, 12470, 12452>>>>,
    <<<<52, 53, 54, 56, 46, 84>>,   \* 4568.T
      <<31532, 19968, 19977, 20849>>>>,
    <<<<52, 53, 49, 57, 46, 84>>,   \* 4519.T
      <<20013, 22806, 35069, 34220>>>>,
    <<<<53, 49, 48, 56, 46, 84>>,   \* 5108.T
      <<12502, 12522, 12482, 12473, 12488, 12531>>>>,
    <<<<54, 55, 53, 50, 46, 84>>,   \* 6752.T
      <<12497, 12490, 12477, 12491, 12483, 12463, 65320, 65316>>>>,
    <<<<50, 57, 49, 52, 46, 84>>,   \* 2914.T
      <<26085, 26412, 12383, 12400, 12371, 29987, 26989>>>>,
    <<<<49, 54, 48, 53, 46, 84>>,   \* 1605.T
      <<65321, 65326, 65328, 65317, 65336>>>>,
    <<<<53, 48, 50, 48, 46, 84>>,   \* 5020.T
      <<65317, 65326, 65317, 65327, 65331, 12507, 12540, 12523, 12487, 12451, 12531, 12464, 12473>>>>,
    <<<<55, 50, 48, 49, 46, 84>>,   \* 7201.T
      <<26085, 29987, 33258, 21205, 36554>>>>,
    <<<<55, 50, 54, 55, 46, 84>>,   \* 7267.T
      <<12507, 12531, 12480>>>>,
    <<<<55, 50, 54, 57, 46, 84>>,   \* 7269.T
      <<12473, 12474, 12461>>>>,
    <<<<55, 50, 55, 48, 46, 84>>,   \* 7270.T
      <<65331, 65333, 65314, 65313, 65330, 65333>>>>,
    <<<<54, 57, 48, 50, 46, 84>>,   \* 6902.T
      <<12487, 12531, 12477, 12540>>>>,
    <<<<52, 48, 54, 50, 46, 84>>,   \* 4062.T
      <<12452, 12499, 12487, 12531>>>>,
    <<<<54, 53, 57, 52, 46, 84>>,   \* 6594.T
      <<12491, 12487, 12483, 12463>>>>,
    <<<<54, 55, 54, 50, 46, 84>>,   \* 6762.T
      <<65332, 65316, 65323>>>>,
    <<<<54, 57, 56, 56, 46, 84>>,   \* 6988.T
      <<26085, 26481, 38651, 24037>>>>,
    <<<<54, 51, 50, 52, 46, 84>>,   \* 6324.T
      <<12495, 12540, 12514, 12491, 12483, 12463, 12489, 12521, 12452, 12502>>>>,
    <<<<54, 51, 54, 55, 46, 84>>,   \* 6367.T
      <<12480, 12452, 12461, 12531, 24037, 26989>>>>,
    <<<<54, 50, 55, 51, 46, 84>>,   \* 6273.T
      <<65331, 65325, 65315>>>>,
    <<<<55, 55, 51, 53, 46, 84>>,   \* 7735.T
      <<65331, 65315, 65330, 65317, 65317, 65326, 12507, 12540, 12523, 12487, 12451, 12531, 12464, 12473>>>>,
    <<<<55, 55, 51, 49, 46, 84>>,   \* 7731.T
      <<12491, 12467, 12531>>>>,
    <<<<55, 55, 53, 50, 46, 84>>,   \* 7752.T
      <<12522, 12467, 12540>>>>,
    <<<<52, 54, 54, 49, 46, 84>>,   \* 4661.T
      <<12458, 12522, 12456, 12531, 12479, 12523, 12521, 12531, 12489>>>>,
    <<<<51, 51, 56, 50, 46, 84>>,   \* 3382.T
      <<12475, 12502, 12531, 65286, 12450, 12452, 12539, 12507, 12540, 12523, 12487, 12451, 12531, 12464, 12473>>>>,
    <<<<56, 48, 48, 49, 46, 84>>,   \* 8001.T
      <<20234, 34276, 24544, 21830, 20107>>>>,
    <<<<56, 48, 48, 50, 46, 84>>,   \* 8002.T
      <<20024, 32005>>>>,
    <<<<56, 48, 53, 51, 46, 84>>,   \* 8053.T
      <<20303, 21451, 21830, 20107>>>>,
    <<<<56, 53, 57, 49, 46, 84>>,   \* 8591.T
      <<12458, 12522, 12483, 12463, 12473>>>>,
    <<<<53, 50, 48, 49, 46, 84>>,   \* 5201.T
      <<65313, 65319, 65315>>>>,
    <<<<51, 52, 48, 50, 46, 84>>,   \* 3402.T
      <<26481, 12524>>>>,
    <<<<54, 48, 57, 56, 46, 84>>,   \* 6098.T
      <<12522, 12463, 12523, 12540, 12488, 12507, 12540, 12523, 12487, 12451, 12531, 12464, 12473>>>>,
    <<<<57, 48, 50, 49, 46, 84>>,   \* 9021.T
      <<65322, 65330, 35199, 26085, 26412>>>>,
    <<<<57, 48, 50, 50, 46, 84>>,   \* 9022.T
      <<65322, 65330, 26481, 28023>>>>,
    <<<<57, 50, 48, 49, 46, 84>>,   \* 9201.T
      <<26085, 26412, 33322, 31354>>>>,
    <<<<57, 50, 48, 50, 46, 84>>,   \* 9202.T
      <<65313, 65326, 65313, 32, 65320, 65316>>>>,
    <<<<53, 52, 48, 49, 46, 84>>,   \* 5401.T
      <<26085, 26412, 35069, 37444>>>>,
    <<<<53, 52, 49, 49, 46, 84>>,   \* 5411.T
      <<65322, 65318, 65317, 12507, 12540, 12523, 12487, 12451, 12531, 12464, 12473>>>>
>>

\* romaji_alias: (alias, symbol, name).
romaji_alias == <<
    <<<<116, 111, 121, 111, 116, 97>>,   \* toyota -> 7203.T
      <<55, 50, 48, 51, 46, 84>>,
      <<12488, 12520, 12479, 33258, 21205, 36554>>>>,
    <<<<115, 111, 110, 121>>,   \* sony -> 6758.T
      <<54, 55, 53, 56, 46, 84>>,
      <<12477, 12491, 12540, 12464, 12523, 12540, 12503>>>>,
    <<<<110, 105, 110, 116, 101, 110, 100, 111>>,   \* nintendo -> 7974.T
      <<55, 57, 55, 52, 46, 84>>,
      <<20219, 22825, 22530>>>>,
    <<<<104, 105, 116, 97, 99, 104, 105>>,   \* hitachi -> 6501.T
      <<54, 53, 48, 49, 46, 84>>,
      <<26085, 31435, 35069, 20316, 25152>>>>,
    <<<<109, 105, 116, 115, 117, 98, 105, 115, 104, 105>>,   \* mitsubishi -> 6503.T
      <<54, 53, 48, 51, 46, 84>>,
      <<19977, 33777, 38651, 27231>>>>,
    <<<<109, 105, 116, 115, 117, 98, 105, 115, 104, 105>>,   \* mitsubishi -> 8058.T
      <<56, 48, 53, 56, 46, 84>>,
      <<19977, 33777, 21830, 20107>>>>,
    <<<<109, 105, 116, 115, 117, 105>>,   \* mitsui -> 8031.T
      <<56, 48, 51, 49, 46, 84>>,
      <<19977, 20117, 29289, 29987>>>>,
    <<<<115, 117, 109, 105, 116, 111, 109, 111>>,   \* sumitomo -> 8316.T
      <<56, 51, 49, 54, 46, 84>>,
      <<19977, 20117, 20303, 21451, 12501, 12451, 12490, 12531, 12471, 12515, 12523, 12464, 12523, 12540, 12503>>>>,
    <<<<109, 105, 122, 117, 104, 111>>,   \* mizuho -> 8411.T
      <<56, 52, 49, 49, 46, 84>>,
      <<12415, 12378, 12411, 12501, 12451, 12490, 12531, 12471, 12515, 12523, 12464, 12523, 12540, 12503>>>>,
    <<<<107, 101, 121, 101, 110, 99, 101>>,   \* keyence -> 6861.T
      <<54, 56, 54, 49, 46, 84>>,
      <<12461, 12540, 12456, 12531, 12473>>>>,
    <<<<109, 117, 114, 97, 116, 97>>,   \* murata -> 6981.T
      <<54, 57, 56, 49, 46, 84>>,
      <<26449, 30000, 35069, 20316, 25152>>>>,
    <<<<99, 97, 110, 111, 110>>,   \* canon -> 7751.T
      <<55, 55, 53, 49, 46, 84>>,
      <<12461, 12516, 12494, 12531>>>>,
    <<<<112, 97, 110, 97, 115, 111, 110, 105, 99>>,   \* panasonic -> 6752.T
      <<54, 55, 53, 50, 46, 84>>,
      <<12497, 12490, 12477, 12491, 12483, 12463, 65320, 65316>>>>,
    <<<<115, 111, 102, 116, 98, 97, 110, 107>>,   \* softbank -> 9434.T
      <<57, 52, 51, 52, 46, 84>>,
      <<12477, 12501, 12488, 12496, 12531, 12463>>>>,
    <<<<115, 98, 103>>,   \* sbg -> 9984.T
      <<57, 57, 56, 52, 46, 84>>,
      <<12477, 12501, 12488, 12496, 12531, 12463, 12464, 12523, 12540, 12503>>>>,
    <<<<107, 100, 100, 105>>,   \* kddi -> 9433.T
      <<57, 52, 51, 51, 46, 84>>,
      <<65323, 65316, 65316, 65321>>>>,
    <<<<110, 105, 115, 115, 97, 110>>,   \* nissan -> 7201.T
      <<55, 50, 48, 49, 46, 84>>,
      <<26085, 29987, 33258, 21205, 36554>>>>,
    <<<<104, 111, 110, 100, 97>>,   \* honda -> 7267.T
      <<55, 50, 54, 55, 46, 84>>,
      <<12507, 12531, 12480>>>>,
    <<<<105, 110, 112, 101, 120>>,   \* inpex -> 1605.T
      <<49, 54, 48, 53, 46, 84>>,
      <<65321, 65326, 65328, 65317, 65336>>>>,
    <<<<101, 110, 101, 111, 115>>,   \* eneos -> 5020.T
      <<53, 48, 50, 48, 46, 84>>,
      <<65317, 65326, 65317, 65327, 65331, 12507, 12540, 12523, 12487, 12451, 12531, 12464, 12473>>>>,
    <<<<97, 110, 97>>,   \* ana -> 9202.T
      <<57, 50, 48, 50, 46, 84>>,
      <<65, 78, 65, 32, 72, 68>>>>,
    <<<<106, 114, 32, 101, 97, 115, 116>>,   \* jr east -> 9020.T
      <<57, 48, 50, 48, 46, 84>>,
      <<26481, 26085, 26412, 26053, 23458, 37444, 36947>>>>,
    <<<<116, 111, 107, 121, 111, 32, 101, 108, 101, 99, 116, 114, 111, 110>>,   \* tokyo electron -> 8035.T
      <<56, 48, 51, 53, 46, 84>>,
      <<26481, 20140, 12456, 12524, 12463, 12488, 12525, 12531>>>>,
    <<<<117, 110, 105, 113, 108, 111>>,   \* uniqlo -> 9983.T
      <<57, 57, 56, 51, 46, 84>>,
      <<12501, 12449, 12540, 12473, 12488, 12522, 12486, 12452, 12522, 12531, 12464>>>>,
    <<<<109, 115, 97, 100>>,   \* msad -> 8725.T
      <<56, 55, 50, 53, 46, 84>>,
      <<77, 83, 38, 65, 68, 20445, 38522, 12464, 12523, 12540, 12503, 72, 68>>>>,
    <<<<109, 115, 38, 97, 100>>,   \* ms&ad -> 8725.T
      <<56, 55, 50, 53, 46, 84>>,
      <<77, 83, 38, 65, 68, 20445, 38522, 12464, 12523, 12540, 12503, 72, 68>>>>,
    <<<<109, 115, 45, 97, 100>>,   \* ms-ad -> 8725.T
      <<56, 55, 50, 53, 46, 84>>,
      <<77, 83, 38, 65, 68, 20445, 38522, 12464, 12523, 12540, 12503, 72, 68>>>>,
    <<<<109, 115, 32, 97, 100>>,   \* ms ad -> 8725.T
      <<56, 55, 50, 53, 46, 84>>,
      <<77, 83, 38, 65, 68, 20445, 38522, 12464, 12523, 12540, 12503, 72, 68>>>>,
    <<<<115, 111, 109, 112, 111>>,   \* sompo -> 8630.T
      <<56, 54, 51, 48, 46, 84>>,
      <<65331, 65327, 65325, 65328, 65327, 12507, 12540, 12523, 12487, 12451, 12531, 12464, 12473>>>>,
    <<<<116, 111, 107, 105, 111, 32, 109, 97, 114, 105, 110, 101>>,   \* tokio marine -> 8766.T
      <<56, 55, 54, 54, 46, 84>>,
      <<26481, 20140, 28023, 19978, 72, 68>>>>,
    <<<<116, 109, 104, 100>>,   \* tmhd -> 8766.T
      <<56, 55, 54, 54, 46, 84>>,
      <<26481, 20140, 28023, 19978, 72, 68>>>>,
    <<<<121, 97, 109, 97, 104, 97, 32, 109, 111, 116, 111, 114>>,   \* yamaha motor -> 7272.T
      <<55, 50, 55, 50, 46, 84>>,
      <<12516, 12510, 12495, 30330, 21205, 27231>>>>,
    <<<<121, 97, 109, 97, 104, 97, 45, 109, 111, 116, 111, 114>>,   \* yamaha-motor -> 7272.T
      <<55, 50, 55, 50, 46, 84>>,
      <<12516, 12510, 12495, 30330, 21205, 27231>>>>,
    <<<<121, 97, 109, 97, 104, 97, 109, 111, 116, 111, 114>>,   \* yamahamotor -> 7272.T
      <<55, 50, 55, 50, 46, 84>>,
      <<12516, 12510, 12495, 30330, 21205, 27231>>>>,
    <<<<121, 97, 109, 97, 104, 97>>,   \* yamaha -> 7272.T
      <<55, 50, 55, 50, 46, 84>>,
      <<12516, 12510, 12495, 30330, 21205, 27231>>>>
>>

\* The symbol texts a ledger entry of the model can hold.
Chars(s) ==
    CASE s = "7203.T" -> <<55, 50, 48, 51, 46, 84>>
      [] s = "TSLA" -> <<84, 83, 76, 65>>
      [] OTHER -> <<>>

\* str.lower() of one character (ASCII and fullwidth capitals; the other
\* characters of the tables have no lower case).
lower_ch(c) ==
    IF (65 <= c /\ c <= 90) \/ (65313 <= c /\ c <= 65338) THEN c + 32 ELSE c

lower(s) == [i \in 1..Len(s) |-> lower_ch(s[i])]

\* A normalisation that forgets the kana fold.
norm_ja_lower_only(s) == lower(s)

\* _norm_ja: katakana to hiragana, the rest to lower case.
norm_ja(s) ==
    [i \in 1..Len(s) |->
        IF 12449 <= s[i] /\ s[i] <= 12534 THEN s[i] - 96 ELSE lower_ch(s[i])]

\* str.strip(): white space off both ends.
IsSpace(c) == c \in {9, 10, 13, 32, 12288}

RECURSIVE strip(_)
strip(s) ==
    IF s = <<>> THEN s
    ELSE IF IsSpace(Head(s)) THEN strip(Tail(s))
    ELSE IF IsSpace(s[Len(s)]) THEN strip(SubSeq(s, 1, Len(s) - 1))
    ELSE s

\* _clean_ascii: lower case, then everything but a-z and 0-9 removed.
IsAlnum(c) == (97 <= c /\ c <= 122) \/ (48 <= c /\ c <= 57)

clean_ascii(x) == SelectSeq(lower(x), IsAlnum)

\* q in s
Contains(q, s) ==
    \E i \in 0..(Len(s) - Len(q)) : SubSeq(s, i + 1, i + Len(q)) = q

\* Variant that forgets the symbol code.
HitNameOnly(qn, sym, name) == Contains(qn, norm_ja(name))

\* The test of the master, catalog and history candidates.
Hit(qn, sym, name) ==
    Contains(qn, norm_ja(name)) \/ Contains(qn, lower(sym))

\* The (symbol, name) pairs of a table that pass the test.
Hits(table, qn) ==
    LET Test(row) == Hit(qn, row[1], row[2])
    IN SelectSeq(table, Test)

\* rom: the aliases whose cleaned key contains the cleaned term.
RomHits(rterm) ==
    LET Test(row) == rterm # <<>> /\ Contains(rterm, clean_ascii(row[1]))
        Pair(row) == <<row[2], row[3]>>
        sel == SelectSeq(romaji_alias, Test)
    IN [i \in 1..Len(sel) |-> Pair(sel[i])]

\* sorted(): the texts of a set in the order of their code points.
LexLess(a, b) ==
    \E k \in 1..(Len(a) + 1) :
        /\ k <= Len(b)
        /\ \A j \in 1..(k - 1) : j <= Len(a) /\ a[j] = b[j]
        /\ (k = Len(a) + 1 \/ a[k] < b[k])

RECURSIVE Sorted(_)
Sorted(S) ==
    IF S = {} THEN <<>>
    ELSE LET m == CHOOSE x \in S : \A y \in S \ {x} : LexLess(x, y)
         IN <<m>> \o Sorted(S \ {m})

\* The symbols used in the ledger, sorted, without the blank ones.
Used(trades) ==
    Sorted({Chars(trades[i].symbol) : i \in 1..Len(trades)}
           \ {x \in {Chars(trades[i].symbol) : i \in 1..Len(trades)} :
                 strip(x) = <<>>})

\* name_map.get(s, ''): the catalog's name of a symbol.
NameOf(sym) ==
    IF \E i \in 1..Len(OFFLINE_SYMBOLS) : OFFLINE_SYMBOLS[i][1] = sym
    THEN LET i == CHOOSE j \in 1..Len(OFFLINE_SYMBOLS) :
                      OFFLINE_SYMBOLS[j][1] = sym
         IN OFFLINE_SYMBOLS[i][2]
    ELSE <<>>

\* hist: the used symbols that pass the test, with the catalog's name.
HistHits(trades, qn) ==
    LET used == Used(trades)
        Test(sym) == Hit(qn, sym, NameOf(sym))
        sel == SelectSeq(used, Test)
    IN [i \in 1..Len(sel) |-> <<sel[i], NameOf(sel[i])>>]

\* net: the EQUITY quotes of the remote answer that carry a symbol; a failed
\* call gives none.
NetHits(answer) ==
    IF ~answer.ok THEN <<>>
    ELSE LET Test(it) == it.symbol # <<>> /\ it.quoteType = "EQUITY"
             sel == SelectSeq(answer.quotes, Test)
         IN [i \in 1..Len(sel) |-> <<sel[i].symbol, sel[i].name>>]

\* The most candidates _search_candidates returns.
MaxCombined == 20

\* label = f"{nm} ({sym})" if nm else sym: the two parts of the label.
Label(sym, nm) == [sym |-> sym, name |-> nm]

\* The merge loop over the candidates of all sources in turn: a symbol seen
\* before is passed over, and the loop ends at MaxCombined labels.
RECURSIVE Merge(_, _, _)
Merge(cands, i, acc) ==
    IF i > Len(cands) \/ Len(acc) >= MaxCombined THEN acc
    ELSE LET sym == cands[i][1]
             seen == {acc[k].sym : k \in 1..Len(acc)}
         IN IF sym # <<>> /\ sym \notin seen
            THEN Merge(cands, i + 1, Append(acc, Label(sym, cands[i][2])))
            ELSE Merge(cands, i + 1, acc)

\* Variant that merges the catalog before the master list.
SourcesCatalogFirst(mst, off, rom, net, hist) ==
    off \o mst \o rom \o net \o hist

\* for src in (mst, off, rom, net, hist)
Sources(mst, off, rom, net, hist) == mst \o off \o rom \o net \o hist

\* _search_candidates
search_candidates(t, mrows, answer, trades) ==
    LET tm == strip(t)
        qn == norm_ja(tm)
    IN IF tm = <<>> THEN <<>>
       ELSE Merge(Sources(Hits(mrows, qn), Hits(OFFLINE_SYMBOLS, qn),
                          RomHits(clean_ascii(tm)), NetHits(answer),
                          HistHits(trades, qn)),
                  1, <<>>)

\* x[:20]
Take(x, n) == SubSeq(x, 1, IF Len(x) < n THEN Len(x) ELSE n)

\* The three loops of the unified dropdown: a symbol is added unless listed.
RECURSIVE AddItems(_, _, _)
AddItems(syms, i, acc) ==
    IF i > Len(syms) THEN acc
    ELSE IF syms[i] \in Range(acc) THEN AddItems(syms, i + 1, acc)
    ELSE AddItems(syms, i + 1, Append(acc, syms[i]))

\* items_combined of the unified dropdown for the text in the symbol field:
\* the catalog hits, the remote hits, then the used symbols that contain the
\* query, each source cut to 20.
Dropdown(t, answer, trades) ==
    LET q == strip(t)
        qn == norm_ja(q)
        ContainsQuery(sym) == Contains(lower(q), lower(sym))
        suggestions == SelectSeq(Used(trades), ContainsQuery)
        off_hits == Hits(OFFLINE_SYMBOLS, qn)
        net_hits == NetHits(answer)
        First(x) == [i \in 1..Len(x) |-> x[i][1]]
    IN IF Len(q) < 1 THEN <<>>
       ELSE AddItems(Take(suggestions, 20), 1,
                AddItems(First(Take(net_hits, 20)), 1,
                    AddItems(First(Take(off_hits, 20)), 1, <<>>)))

\* The answer of the remote search: a failure, or a list of quotes.
NoAnswer == [ok |-> FALSE, quotes |-> <<>>]

\* The symbol search before it is followed (see SpecSearch).
SearchInit ==
    /\ term = <<>>
    /\ query = <<>>
    /\ master = <<>>
    /\ quotes = NoAnswer
    /\ combined = <<>>
    /\ items_combined = <<>>
    /\ qnorm = <<>>

\* Import, export and load before they are followed (see SpecData).
DataInit ==
    /\ parsed_rows = <<>>
    /\ parsed_errs = <<>>
    /\ csv_text = <<>>
    /\ load_ret = <<>>

\* No cached master list, and no refresh yet (see SpecMaster).
MasterInit ==
    /\ symbols_csv = [exists |-> FALSE, content |-> <<>>]
    /\ symbols_meta = [exists |-> FALSE, lastUpdated |-> 0]
    /\ refreshed = [ok |-> FALSE, msg |-> "", count |-> 0]
    /\ tried = <<>>
    /\ now = 0

\* ---- initial state
SampleEntry == [date |-> "2025-10-01", symbol |-> "7203.T", buy |-> 0,
                sell |-> 1, quantity |-> 1, profit |-> 1]

InitFiles == {[kind |-> "missing", items |-> <<>>],
              [kind |-> "ok", items |-> <<>>],
              [kind |-> "ok", items |-> json_dumps(<<SampleEntry>>)]}

InitSession(f) ==
    /\ faults = f
    /\ trades_json \in InitFiles
    /\ LET loaded == InitialLoad(<<>>, trades_json)
       IN /\ heap = [i \in 1..Len(loaded) |-> loaded[i]]
          /\ simple_trades = [i \in 1..Len(loaded) |-> i]
    /\ undo_stack = <<>>
    /\ selected \in Dates
    /\ input_visible = FALSE
    /\ lastOp = "init"
    /\ undid = ""
    /\ ret = FALSE
    /\ pre = <<>>
    /\ target = 0
    /\ uploaded = <<>>
    /\ TaxInit
    /\ RunInit
    /\ SearchInit
    /\ DataInit
    /\ MasterInit

Init == InitSession(0)

\* ---- the entries shown for the selected day (list positions, in order)
RECURSIVE EntriesFrom(_, _, _, _)
EntriesFrom(h, list, sel, j) ==
    IF j > Len(list) THEN <<>>
    ELSE IF h[list[j]].date = sel
         THEN <<j>> \o EntriesFrom(h, list, sel, j + 1)
         ELSE EntriesFrom(h, list, sel, j + 1)

Entries == EntriesFrom(heap, simple_trades, selected, 1)

\* ---- handlers
DateClick(d) ==
    /\ selected' = d
    /\ input_visible' = TRUE
    /\ UNCHANGED <<heap, simple_trades, undo_stack, trades_json,
                   faults, lastOp, undid, ret, pre, target, uploaded,
                   auxVars>>

\* Variant with the operands swapped.
GrossSwapped(buy, sell, qty) == (buy - sell) * qty

\* The profit shown in and saved by the trade form.
Gross(buy, sell, qty) == (sell - buy) * qty

FormEntry(sel, sym, buy, sell, qty) ==
    [date |-> sel, symbol |-> Strip(sym), buy |-> buy, sell |-> sell,
     quantity |-> qty, profit |-> Gross(buy, sell, qty)]

\* Variant of the form save that takes a snapshot first, as the other
\* handlers do.
AddWithSnapshot(sym, buy, sell, qty, saved) ==
    /\ input_visible
    /\ Len(simple_trades) < MaxLedger
    /\ Len(undo_stack) < MaxUndo
    /\ undo_stack' = push_undo(undo_stack, Ledger, TRUE)
    /\ LET id == NewId(heap)
       IN /\ heap' = (id :> FormEntry(selected, sym, buy, sell, qty)) @@ heap
          /\ simple_trades' = Append(simple_trades, id)
    /\ Outcome(TRUE, saved)
    /\ trades_json' = save_trades(trades_json, Ledger', saved)
    /\ lastOp' = "add"
    /\ undid' = ""
    /\ ret' = FALSE
    /\ pre' = Ledger
    /\ target' = 0
    /\ uploaded' = <<>>
    /\ UNCHANGED <<selected, input_visible,
                   auxVars>>

Add(sym, buy, sell, qty, saved) ==
    /\ input_visible
    /\ Len(simple_trades) < MaxLedger
    /\ LET id == NewId(heap)
       IN /\ heap' = (id :> FormEntry(selected, sym, buy, sell, qty)) @@ heap
          /\ simple_trades' = Append(simple_trades, id)
    /\ Outcome(TRUE, saved)
    /\ trades_json' = save_trades(trades_json, Ledger', saved)
    /\ lastOp' = "add"
    /\ undid' = ""
    /\ ret' = FALSE
    /\ pre' = Ledger
    /\ target' = 0
    /\ uploaded' = <<>>
    /\ UNCHANGED <<undo_stack, selected, input_visible,
                   auxVars>>

\* ---- CSV import
\* A numeric cell of a CSV row: absent or empty, a number, or other text.
Empty == [kind |-> "empty", val |-> 0]
Num(n) == [kind |-> "num", val |-> n]
Bad == [kind |-> "bad", val |-> 0]

\* `x or 0.0` for x a float or None.
OrZero(x) == IF x.some THEN x.v ELSE 0

\* d[:10] on the date texts of the model.
Prefix10(d) == IF d = "2025-10-02T09:00" THEN "2025-10-02" ELSE d

\* _to_f: None for an empty cell, the number otherwise (text that float()
\* rejects raises: see Raises).
to_f(x) == IF x.kind = "empty" THEN None ELSE Some(x.val)

Raises(x) == x.kind = "bad"

\* Variant that recomputes the profit whenever buy and sell are given.
ImportProfitRecomputed(buy_v, sell_v, qty_v, prf_v) ==
    IF buy_v.some /\ sell_v.some
    THEN [some |-> TRUE, v |-> (sell_v.v - buy_v.v) * qty_v]
    ELSE prf_v

\* Variant that leaves the quantity out of the computed profit.
ImportProfitNoQuantity(buy_v, sell_v, qty_v, prf_v) ==
    IF ~prf_v.some /\ buy_v.some /\ sell_v.some
    THEN Some(sell_v.v - buy_v.v)
    ELSE prf_v

\* The profit of an imported row: the row's own when given, else computed
\* when buy and sell are both given, else missing.
ImportProfit(buy_v, sell_v, qty_v, prf_v) ==
    IF ~prf_v.some /\ buy_v.some /\ sell_v.some
    THEN Some((sell_v.v - buy_v.v) * qty_v)
    ELSE prf_v

\* One data row, i its 1-based index: the entry, or the error collected.
ParseRow(i, r) ==
    IF Raises(r.buy) \/ Raises(r.sell) \/ Raises(r.quantity) \/ Raises(r.profit)
    THEN [ok |-> FALSE, err |-> [row |-> i, reason |-> "parse"]]
    ELSE IF r.date = ""
    THEN [ok |-> FALSE, err |-> [row |-> i, reason |-> "date"]]
    ELSE LET buy_v == to_f(r.buy)
             sell_v == to_f(r.sell)
             qty_v == OrZero(to_f(r.quantity))
             prf_v == ImportProfit(buy_v, sell_v, qty_v, to_f(r.profit))
         IN [ok |-> TRUE,
             row |-> [date |-> Prefix10(r.date), symbol |-> Strip(r.symbol),
                      buy |-> OrZero(buy_v), sell |-> OrZero(sell_v),
                      quantity |-> qty_v, profit |-> OrZero(prf_v)]]

\* _parse_import_csv: [rows, errs] for the data rows of the file.
RECURSIVE ParseFrom(_, _)
\* Variant that gives up at the first row it cannot parse.
ParseFromAbort(data, i) ==
    IF i > Len(data) THEN [rows |-> <<>>, errs |-> <<>>]
    ELSE LET p == ParseRow(i, data[i])
         IN IF p.ok
            THEN LET rest == ParseFrom(data, i + 1)
                 IN [rows |-> <<p.row>> \o rest.rows, errs |-> rest.errs]
            ELSE [rows |-> <<>>, errs |-> <<p.err>>]

ParseFrom(data, i) ==
    IF i > Len(data) THEN [rows |-> <<>>, errs |-> <<>>]
    ELSE LET p == ParseRow(i, data[i])
             rest == ParseFrom(data, i + 1)
         IN IF p.ok
            THEN [rows |-> <<p.row>> \o rest.rows, errs |-> rest.errs]
            ELSE [rows |-> rest.rows, errs |-> <<p.err>> \o rest.errs]

parse_import_csv(data) == ParseFrom(data, 1)

CsvRow(d, buy, sell, prf) ==
    [date |-> d, symbol |-> "7203.T", buy |-> buy, sell |-> sell,
     quantity |-> Num(1), profit |-> prf]

RowComputed == CsvRow("2025-10-02", Num(0), Num(1), Empty)
RowOwnProfit == CsvRow("2025-10-02", Num(0), Num(1), Num(5))
RowNoBuy == CsvRow("2025-10-02", Empty, Num(1), Empty)
RowNoDate == CsvRow("", Num(0), Num(1), Empty)
RowBadSell == CsvRow("2025-10-02", Num(0), Bad, Empty)

\* The uploaded files of the model: no data row, one row of each kind, and
\* files with an unparsable row before or between good ones.
CsvFiles == {<<>>, <<RowComputed>>, <<RowOwnProfit>>, <<RowNoBuy>>,
             <<RowNoDate>>, <<RowBadSell>>,
             <<RowNoDate, RowOwnProfit>>,
             <<RowComputed, RowBadSell, RowNoBuy>>}

\* list.extend(rows): each row is a new dict object.
RECURSIVE Extend(_, _, _)
Extend(h, list, rows) ==
    IF rows = <<>> THEN [heap |-> h, list |-> list]
    ELSE LET id == NewId(h)
         IN Extend((id :> Head(rows)) @@ h, Append(list, id), Tail(rows))

Import(data, pushed, saved) ==
    LET rows == parse_import_csv(data).rows
    IN IF rows # <<>>
       THEN /\ Len(simple_trades) + Len(rows) <= MaxLedger
            /\ Len(undo_stack) < MaxUndo
            /\ undo_stack' = push_undo(undo_stack, Ledger, pushed)
            /\ LET x == Extend(heap, simple_trades, rows)
               IN /\ heap' = x.heap
                  /\ simple_trades' = x.list
            /\ Outcome(pushed, saved)
            /\ trades_json' = save_trades(trades_json, Ledger', saved)
            /\ lastOp' = "import"
            /\ undid' = ""
            /\ ret' = FALSE
            /\ pre' = Ledger
            /\ target' = 0
            /\ uploaded' = data
            /\ UNCHANGED <<selected, input_visible,
                   auxVars>>
       ELSE UNCHANGED vars

\* ---- the rows of the selected day
\* Each displayed row has an edit, a duplicate and a delete button.  The
\* edit button only opens the row's inline form (the key
\* _editing_{sel}_{idx}), which can be done for any displayed row, so the
\* form's update button is taken to be available on every displayed row.
\* Variant without the deepcopy: the same object is listed twice.
DuplicateEntryAlias(h, list, e) == [heap |-> h, list |-> Append(list, e)]

\* append(copy.deepcopy(e)): a new object with e's fields.
DuplicateEntry(h, list, e) ==
    LET id == NewId(h)
    IN [heap |-> (id :> h[e]) @@ h, list |-> Append(list, id)]

Duplicate(idx, pushed, saved) ==
    /\ input_visible
    /\ idx \in 1..Len(Entries)
    /\ Len(simple_trades) < MaxLedger
    /\ Len(undo_stack) < MaxUndo
    /\ undo_stack' = push_undo(undo_stack, Ledger, pushed)
    /\ LET x == DuplicateEntry(heap, simple_trades, simple_trades[Entries[idx]])
       IN /\ heap' = x.heap
          /\ simple_trades' = x.list
    /\ Outcome(pushed, saved)
    /\ trades_json' = save_trades(trades_json, Ledger', saved)
    /\ lastOp' = "duplicate"
    /\ undid' = ""
    /\ ret' = FALSE
    /\ pre' = Ledger
    /\ target' = Entries[idx]
    /\ uploaded' = <<>>
    /\ UNCHANGED <<selected, input_visible, auxVars>>

\* Variant that does not compare the date.
MatchesAnyDate(a, sel, e) ==
    /\ a.symbol = e.symbol
    /\ a.buy = e.buy
    /\ a.sell = e.sell
    /\ a.quantity = e.quantity
    /\ a.profit = e.profit

\* The comparison of the delete loop: the selected date and e's other fields.
Matches(a, sel, e) ==
    /\ a.date = sel
    /\ a.symbol = e.symbol
    /\ a.buy = e.buy
    /\ a.sell = e.sell
    /\ a.quantity = e.quantity
    /\ a.profit = e.profit

\* The first position the delete loop stops at (0: none).
FirstMatch(trades, sel, e) ==
    IF \E j \in 1..Len(trades) : Matches(trades[j], sel, e)
    THEN CHOOSE j \in 1..Len(trades) :
            /\ Matches(trades[j], sel, e)
            /\ \A k \in 1..(j - 1) : ~Matches(trades[k], sel, e)
    ELSE 0

\* del all_list[j]
DelAt(list, j) ==
    IF j = 0 THEN list
    ELSE SubSeq(list, 1, j - 1) \o SubSeq(list, j + 1, Len(list))

Delete(idx, pushed, saved) ==
    /\ input_visible
    /\ idx \in 1..Len(Entries)
    /\ Len(undo_stack) < MaxUndo
    /\ undo_stack' = push_undo(undo_stack, Ledger, pushed)
    /\ LET e == heap[simple_trades[Entries[idx]]]
           j == FirstMatch(Ledger, selected, e)
           x == Collect(heap, DelAt(simple_trades, j))
       IN /\ heap' = x.heap
          /\ simple_trades' = x.list
    /\ Outcome(pushed, saved)
    /\ trades_json' = save_trades(trades_json, Ledger', saved)
    /\ lastOp' = "delete"
    /\ undid' = ""
    /\ ret' = FALSE
    /\ pre' = Ledger
    /\ target' = Entries[idx]
    /\ uploaded' = <<>>
    /\ UNCHANGED <<selected, input_visible, auxVars>>

\* e.update({...}): the patch of the inline edit form, on the object e.
Patch(t, eb, es, eq, esym) ==
    [t EXCEPT !.buy = eb, !.sell = es, !.quantity = eq,
              !.symbol = Strip(esym), !.profit = (es - eb) * eq]

\* Variant that patches the first object whose fields equal e's.
UpdateFirstMatch(h, e, eb, es, eq, esym) ==
    LET f == CHOOSE i \in DOMAIN h :
                /\ h[i] = h[e]
                /\ \A k \in DOMAIN h : h[k] = h[e] => i <= k
    IN [h EXCEPT ![f] = Patch(h[f], eb, es, eq, esym)]

UpdateEntry(h, e, eb, es, eq, esym) ==
    [h EXCEPT ![e] = Patch(h[e], eb, es, eq, esym)]

Update(idx, eb, es, eq, esym, pushed, saved) ==
    /\ input_visible
    /\ idx \in 1..Len(Entries)
    /\ Len(undo_stack) < MaxUndo
    /\ undo_stack' = push_undo(undo_stack, Ledger, pushed)
    /\ heap' = UpdateEntry(heap, simple_trades[Entries[idx]], eb, es, eq, esym)
    /\ simple_trades' = simple_trades
    /\ Outcome(pushed, saved)
    /\ trades_json' = save_trades(trades_json, Ledger', saved)
    /\ lastOp' = "update"
    /\ undid' = ""
    /\ ret' = FALSE
    /\ pre' = Ledger
    /\ target' = Entries[idx]
    /\ uploaded' = <<>>
    /\ UNCHANGED <<selected, input_visible, auxVars>>

\* ---- the options popover
\* The undo button (disabled while the stack is empty): _pop_undo, then rerun.
Undo ==
    /\ undo_stack # <<>>
    /\ LET r == pop_undo(undo_stack, Ledger)
       IN /\ undo_stack' = r.stack
          /\ heap' = [i \in 1..Len(r.trades) |-> r.trades[i]]
          /\ simple_trades' = [i \in 1..Len(r.trades) |-> i]
          /\ ret' = r.ret
    /\ lastOp' = "undo"
    /\ undid' = lastOp
    /\ pre' = IF lastOp \in PushOps THEN pre ELSE <<>>
    /\ target' = 0
    /\ uploaded' = <<>>
    /\ UNCHANGED <<trades_json, selected, input_visible, faults,
                   auxVars>>

\* The local save button.
SaveLocal(saved) ==
    /\ Outcome(TRUE, saved)
    /\ trades_json' = save_trades(trades_json, Ledger, saved)
    /\ UNCHANGED <<heap, simple_trades, undo_stack, selected, input_visible,
                   lastOp, undid, ret, pre, target, uploaded,
                   auxVars>>

Rows == 1..MaxLedger

Next ==
    \/ \E d \in Dates : DateClick(d)
    \/ \E sym \in FormSymbols, buy \in FormBuys, sell \in FormSells,
          qty \in FormQuantities, saved \in Outcomes :
          Add(sym, buy, sell, qty, saved)
    \/ \E data \in CsvFiles, pushed \in Outcomes, saved \in Outcomes :
          Import(data, pushed, saved)
    \/ \E idx \in Rows, pushed \in Outcomes, saved \in Outcomes :
          Duplicate(idx, pushed, saved)
    \/ \E idx \in Rows, pushed \in Outcomes, saved \in Outcomes :
          Delete(idx, pushed, saved)
    \/ \E idx \in Rows, eb \in EditBuys, es \in EditSells,
          eq \in EditQuantities, esym \in EditSymbols,
          pushed \in Outcomes, saved \in Outcomes :
          Update(idx, eb, es, eq, esym, pushed, saved)
    \/ Undo
    \/ \E saved \in Outcomes : SaveLocal(saved)

Spec == Init /\ [][Next]_vars

\* The same program in an environment where json.dumps and file writes may
\* raise (the handlers swallow both).
InitFault == InitSession(MaxFaults)

SpecFault == InitFault /\ [][Next]_vars

\* ---- _pop_undo on its own
\* _pop_undo applied once to any ledger and any stack of snapshots (the undo
\* button itself cannot be clicked while the stack is empty).
RECURSIVE SeqsUpTo(_, _)
SeqsUpTo(S, n) ==
    IF n = 0 THEN {<<>>}
    ELSE LET shorter == SeqsUpTo(S, n - 1)
         IN shorter \cup {Append(q, x) : q \in shorter, x \in S}

PopEntries == {SampleEntry, [SampleEntry EXCEPT !.date = "2025-10-02"]}

PopLedgers == SeqsUpTo(PopEntries, MaxLedger)

PopStacks == SeqsUpTo({json_dumps(l) : l \in PopLedgers}, MaxUndo)

InitPop ==
    /\ faults = 0
    /\ trades_json = [kind |-> "missing", items |-> <<>>]
    /\ \E l \in PopLedgers :
          /\ heap = [i \in 1..Len(l) |-> l[i]]
          /\ simple_trades = [i \in 1..Len(l) |-> i]
    /\ undo_stack \in PopStacks
    /\ selected \in Dates
    /\ input_visible = FALSE
    /\ lastOp = "init"
    /\ undid = ""
    /\ ret = FALSE
    /\ pre = <<>>
    /\ target = 0
    /\ uploaded = <<>>
    /\ TaxInit
    /\ RunInit
    /\ SearchInit
    /\ DataInit
    /\ MasterInit

PopCall ==
    /\ lastOp = "init"
    /\ LET r == pop_undo(undo_stack, Ledger)
       IN /\ undo_stack' = r.stack
          /\ heap' = [i \in 1..Len(r.trades) |-> r.trades[i]]
          /\ simple_trades' = [i \in 1..Len(r.trades) |-> i]
          /\ ret' = r.ret
    /\ lastOp' = "pop"
    /\ pre' = Ledger
    /\ UNCHANGED <<trades_json, selected, input_visible, faults,
                   undid, target, uploaded,
                   auxVars>>

NextPop == PopCall

SpecPop == InitPop /\ [][NextPop]_vars

\* ---- the aggregation on its own
\* The script run computes the daily totals and the month and year totals
\* from the ledger and the tax settings; here it runs on ledgers of every
\* kind of entry, under the tax settings the options popover can produce.
TotalsEntry(d, p) == [SampleEntry EXCEPT !.date = d, !.profit = p]

\* Entries on two days of a month, in another month, in another year, with
\* no date and with a date fromisoformat rejects; a gain, a loss and zero.
TotalsEntries == {TotalsEntry("2025-10-01", 100), TotalsEntry("2025-10-02", 0),
                  TotalsEntry("2025-11-01", -100), TotalsEntry("2024-10-01", 100),
                  TotalsEntry("", 100), TotalsEntry("2025/10/01", 100)}

TotalsLedgers == SeqsUpTo(TotalsEntries, MaxLedger)

\* What the calendar reports as the month in view (datesSet), if anything.
NoView == [some |-> FALSE, year |-> 0, month |-> 0]

DatesSets == {NoView,
              [some |-> TRUE, year |-> 2025, month |-> 11],
              [some |-> TRUE, year |-> 2024, month |-> 10]}

\* view_year, view_month: from datesSet, else from the selected day.
ViewOf(ds, sel) ==
    IF ds.some THEN [year |-> ds.year, month |-> ds.month]
    ELSE [year |-> fromisoformat(sel).year, month |-> fromisoformat(sel).month]

\* The percents typed into the rate input.
PctInputs == {-50, 0, 100, 150}

\* The aggregation of one script run, from the session as the run finds it.
Aggregate(trades, use, rate, ds, sel) ==
    LET view == ViewOf(ds, sel)
        my == MonthYearTotals(trades, view.year, view.month, use, rate)
    IN [use_tax |-> use, tax_rate |-> rate,
        totals |-> DailyTotals(trades, use, rate),
        view_year |-> view.year, view_month |-> view.month,
        month_total |-> my.month, year_total |-> my.year]

InitTotals ==
    /\ faults = 0
    /\ trades_json = [kind |-> "missing", items |-> <<>>]
    /\ \E l \in TotalsLedgers :
          /\ heap = [i \in 1..Len(l) |-> l[i]]
          /\ simple_trades = [i \in 1..Len(l) |-> i]
    /\ undo_stack = <<>>
    /\ selected = "2025-10-01"
    /\ input_visible = FALSE
    /\ lastOp = "init"
    /\ undid = ""
    /\ ret = FALSE
    /\ pre = <<>>
    /\ target = 0
    /\ uploaded = <<>>
    /\ TaxInit
    /\ SearchInit
    /\ DataInit
    /\ MasterInit
    /\ LET a == Aggregate(Ledger, TRUE, get_tax_rate(None), NoView, selected)
       IN /\ use_tax = a.use_tax
          /\ tax_rate = a.tax_rate
          /\ totals = a.totals
          /\ view_year = a.view_year
          /\ view_month = a.view_month
          /\ month_total = a.month_total
          /\ year_total = a.year_total

\* The part of every run before the options popover: the locals are computed
\* from the session's settings as the previous run left them.
RunLocals(ds) ==
    LET a == Aggregate(Ledger, session_use_tax, get_tax_rate(session_tax_rate),
                       ds, selected)
    IN /\ use_tax' = a.use_tax
       /\ tax_rate' = a.tax_rate
       /\ totals' = a.totals
       /\ view_year' = a.view_year
       /\ view_month' = a.view_month
       /\ month_total' = a.month_total
       /\ year_total' = a.year_total

\* A run with no change in the options (the calendar was moved, or any other
\* rerun): the widgets give back what they hold.
Run(ds) ==
    /\ RunLocals(ds)
    /\ lastOp' = "run"
    /\ UNCHANGED <<heap, simple_trades, undo_stack, trades_json, selected,
                   input_visible, faults, undid, ret, pre, target, uploaded,
                   taxVars, searchVars, dataVars, masterVars>>

\* The checkbox is clicked: the run stores its new value; the rate input is
\* shown only while the box is checked, with the session's rate.
ToggleTax(ds) ==
    /\ RunLocals(ds)
    /\ session_use_tax' = ~session_use_tax
    /\ session_tax_rate' = IF session_use_tax' THEN Some(get_tax_rate(session_tax_rate))
                           ELSE session_tax_rate
    /\ lastOp' = "toggle"
    /\ UNCHANGED <<heap, simple_trades, undo_stack, trades_json, selected,
                   input_visible, faults, undid, ret, pre, target, uploaded,
                   tax_input, raised, searchVars, dataVars, masterVars>>

\* A percent is typed into the rate input: the run stores pct / 100.
TypeRate(ds, typed) ==
    /\ session_use_tax
    /\ RunLocals(ds)
    /\ \E pct \in NumberInput(get_tax_rate(session_tax_rate), typed, 0, RateDen) :
          session_tax_rate' = Some(pct)
    /\ tax_input' = typed
    /\ lastOp' = "rate"
    /\ UNCHANGED <<heap, simple_trades, undo_stack, trades_json, selected,
                   input_visible, faults, undid, ret, pre, target, uploaded,
                   session_use_tax, raised, searchVars, dataVars, masterVars>>

NextTotals ==
    \/ \E ds \in DatesSets : Run(ds)
    \/ \E ds \in DatesSets : ToggleTax(ds)
    \/ \E ds \in DatesSets, typed \in PctInputs : TypeRate(ds, typed)

SpecTotals == InitTotals /\ [][NextTotals]_vars

\* ---- the symbol search on its own
\* _search_candidates and the unified dropdown are functions of the text, the
\* master file, the remote answer and the ledger; each is applied to texts
\* of every kind under each combination of the other three.
Text7203 == <<55, 50, 48, 51>>                      \* 7203
Text7203Padded == <<32, 55, 50, 48, 51, 32>>        \* 7203 between blanks
TextToyota == <<116, 111, 121, 111, 116, 97>>        \* toyota
TextToyotaKana == <<12392, 12424, 12383>>              \* to-yo-ta in hiragana
TextToyotaKatakana == <<12488, 12520, 12479>>          \* to-yo-ta in katakana
TextT == <<116>>                                 \* t
TextXyz == <<120, 121, 122>>                     \* xyz

Texts == {<<>>, Text7203, Text7203Padded, TextToyota, TextToyotaKana,
          TextToyotaKatakana, <<84, 79, 89, 79, 84, 65>>, TextT, TextXyz}

Sym7203 == <<55, 50, 48, 51, 46, 84>>             \* 7203.T
SymTM == <<84, 77>>                               \* TM
NameMaster == <<84, 79, 89, 79, 84, 65, 32, 77, 79, 84, 79, 82>>   \* TOYOTA MOTOR
NameOther == <<75, 89, 79, 75, 85, 89, 79>>      \* KYOKUYO

\* Master files: none, one that names a catalog symbol differently, and one
\* with more rows than a result holds (1301.T, 1302.T, ...).
MasterSmall == <<<<Sym7203, NameMaster>>, <<<<49, 51, 48, 49, 46, 84>>, NameOther>>>>

MasterBig ==
    [i \in 1..(MaxCombined + 1) |->
        <<<<49, 51, 48 + (i \div 10), 48 + (i % 10), 46, 84>>, NameOther>>]

Masters == {<<>>, MasterSmall, MasterBig}

\* Remote answers: a failed call, and quotes of which one is in the catalog,
\* one is not and one is no EQUITY.
SomeAnswer ==
    [ok |-> TRUE,
     quotes |-> <<[symbol |-> Sym7203, name |-> NameMaster, quoteType |-> "EQUITY"],
                  [symbol |-> SymTM, name |-> NameMaster, quoteType |-> "EQUITY"],
                  [symbol |-> <<94, 78, 50, 50, 53>>, name |-> <<>>, quoteType |-> "INDEX"]>>]

Answers == {NoAnswer, SomeAnswer}

SearchLedgers == {<<>>, <<SampleEntry>>,
                  <<[SampleEntry EXCEPT !.symbol = "TSLA"],
                    [SampleEntry EXCEPT !.symbol = ""]>>}

InitSearch ==
    /\ faults = 0
    /\ trades_json = [kind |-> "missing", items |-> <<>>]
    /\ \E l \in SearchLedgers :
          /\ heap = [i \in 1..Len(l) |-> l[i]]
          /\ simple_trades = [i \in 1..Len(l) |-> i]
    /\ undo_stack = <<>>
    /\ selected = "2025-10-01"
    /\ input_visible = TRUE
    /\ lastOp = "init"
    /\ undid = ""
    /\ ret = FALSE
    /\ pre = <<>>
    /\ target = 0
    /\ uploaded = <<>>
    /\ TaxInit
    /\ RunInit
    /\ term = <<>>
    /\ query = <<>>
    /\ master \in Masters
    /\ quotes \in Answers
    /\ combined = <<>>
    /\ items_combined = <<>>
    /\ qnorm = <<>>
    /\ DataInit
    /\ MasterInit

\* The search box calls _search_candidates with the text typed so far.
Searchbox(t) ==
    /\ term' = t
    /\ qnorm' = norm_ja(strip(t))
    /\ combined' = search_candidates(t, master, quotes, Ledger)
    /\ lastOp' = "search"
    /\ UNCHANGED <<heap, simple_trades, undo_stack, trades_json, selected,
                   input_visible, faults, undid, ret, pre, target, uploaded,
                   taxVars, runVars, query, master, quotes, items_combined,
                   dataVars, masterVars>>

\* A run with text t in the symbol field builds the unified dropdown.
SymbolText(t) ==
    /\ query' = strip(t)
    /\ qnorm' = norm_ja(strip(t))
    /\ items_combined' = Dropdown(t, quotes, Ledger)
    /\ lastOp' = "dropdown"
    /\ UNCHANGED <<heap, simple_trades, undo_stack, trades_json, selected,
                   input_visible, faults, undid, ret, pre, target, uploaded,
                   taxVars, runVars, term, master, quotes, combined,
                   dataVars, masterVars>>

NextSearch ==
    \/ \E t \in Texts : Searchbox(t)
    \/ \E t \in Texts : SymbolText(t)

SpecSearch == InitSearch /\ [][NextSearch]_vars

\* ---- import, export and load on their own
\* _parse_import_csv, _export_csv_text and _load_trades applied to any
\* ledger, any uploaded file and any snapshot file.

\* Variant of the export that leaves the profit column empty.
export_csv_text_no_profit(trades) ==
    [i \in 1..Len(trades) |->
        [date |-> trades[i].date, symbol |-> trades[i].symbol,
         buy |-> Num(trades[i].buy), sell |-> Num(trades[i].sell),
         quantity |-> Num(trades[i].quantity), profit |-> Empty]]

\* _export_csv_text: after the header, one row per entry; the texts as they
\* are (an empty text is an empty cell) and each number as its text.
export_csv_text(trades) ==
    [i \in 1..Len(trades) |->
        [date |-> trades[i].date, symbol |-> trades[i].symbol,
         buy |-> Num(trades[i].buy), sell |-> Num(trades[i].sell),
         quantity |-> Num(trades[i].quantity),
         profit |-> Num(trades[i].profit)]]

\* The row of the sample: 2025-10-01,7203.T,2400,2500,100, (no profit).
RowSample ==
    [date |-> "2025-10-01", symbol |-> "7203.T", buy |-> Num(2400),
     sell |-> Num(2500), quantity |-> Num(100), profit |-> Empty]

RowBadProfit == CsvRow("2025-10-02", Num(0), Num(1), Bad)

DataCsvFiles ==
    CsvFiles \cup {<<RowSample>>,
                   <<CsvRow("2025-10-02", Num(1), Empty, Empty)>>,
                   <<CsvRow("2025-10-02", Empty, Num(1), Num(5))>>,
                   <<RowBadProfit, RowSample, RowNoDate>>}

\* The entries a ledger can hold after a load: the snapshot file is not
\* checked field by field, so a date can be empty or longer than a day,
\* and a symbol can have blanks around it.
DataEntries ==
    {SampleEntry,
     [SampleEntry EXCEPT !.symbol = " 7203.T "],
     [SampleEntry EXCEPT !.date = ""],
     [SampleEntry EXCEPT !.symbol = ""],
     [SampleEntry EXCEPT !.profit = 0],
     [SampleEntry EXCEPT !.date = "2025-10-02T09:00"]}

\* The snapshot file: absent; present but not readable; not JSON; JSON
\* whose root is not an object; an object without items; an object whose
\* items is not a list; an object whose items is a list.
DataFiles ==
    {[kind |-> "missing", items |-> <<>>],
     [kind |-> "unreadable", items |-> json_dumps(<<SampleEntry>>)],
     [kind |-> "malformed", items |-> <<>>],
     [kind |-> "nonobject", items |-> json_dumps(<<SampleEntry>>)],
     [kind |-> "noitems", items |-> <<>>],
     [kind |-> "itemsnotlist", items |-> json_dumps(<<SampleEntry>>)],
     [kind |-> "ok", items |-> <<>>],
     [kind |-> "ok", items |-> json_dumps(<<SampleEntry>>)]}

InitData ==
    /\ faults = 0
    /\ trades_json \in DataFiles
    /\ \E l \in SeqsUpTo(DataEntries, MaxLedger) :
          /\ heap = [i \in 1..Len(l) |-> l[i]]
          /\ simple_trades = [i \in 1..Len(l) |-> i]
    /\ undo_stack = <<>>
    /\ selected = "2025-10-01"
    /\ input_visible = FALSE
    /\ lastOp = "init"
    /\ undid = ""
    /\ ret = FALSE
    /\ pre = <<>>
    /\ target = 0
    /\ uploaded = <<>>
    /\ TaxInit
    /\ RunInit
    /\ SearchInit
    /\ DataInit
    /\ MasterInit

\* rows, errs = _parse_import_csv(up.read()) for an uploaded file.
ParseCall(data) ==
    /\ parsed_rows' = parse_import_csv(data).rows
    /\ parsed_errs' = parse_import_csv(data).errs
    /\ uploaded' = data
    /\ lastOp' = "parse"
    /\ UNCHANGED <<heap, simple_trades, undo_stack, trades_json, selected,
                   input_visible, faults, undid, ret, pre, target,
                   csv_text, load_ret,
                   taxVars, runVars, searchVars, masterVars>>

\* exp_csv = _export_csv_text(trades_now)
ExportCall ==
    /\ csv_text' = export_csv_text(Ledger)
    /\ lastOp' = "export"
    /\ UNCHANGED <<heap, simple_trades, undo_stack, trades_json, selected,
                   input_visible, faults, undid, ret, pre, target, uploaded,
                   parsed_rows, parsed_errs, load_ret,
                   taxVars, runVars, searchVars, masterVars>>

\* The exported text is uploaded again.
Reimport ==
    /\ lastOp = "export"
    /\ parsed_rows' = parse_import_csv(csv_text).rows
    /\ parsed_errs' = parse_import_csv(csv_text).errs
    /\ uploaded' = csv_text
    /\ lastOp' = "reimport"
    /\ UNCHANGED <<heap, simple_trades, undo_stack, trades_json, selected,
                   input_visible, faults, undid, ret, pre, target,
                   csv_text, load_ret,
                   taxVars, runVars, searchVars, masterVars>>

\* loaded = _load_trades()
LoadCall ==
    /\ load_ret' = load_trades(trades_json)
    /\ lastOp' = "load"
    /\ UNCHANGED <<heap, simple_trades, undo_stack, trades_json, selected,
                   input_visible, faults, undid, ret, pre, target, uploaded,
                   parsed_rows, parsed_errs, csv_text,
                   taxVars, runVars, searchVars, masterVars>>

NextData ==
    \/ \E data \in DataCsvFiles : ParseCall(data)
    \/ ExportCall
    \/ Reimport
    \/ LoadCall

SpecData == InitData /\ [][NextData]_vars

\* ---- the refresh of the master list
\* The mirrors in the order of urls, each with the lines it serves.
Mirrors ==
    <<[url |-> "woxtu/stock-list-jpx",
       content |-> <<"code,name", "7203,TOYOTA MOTOR">>],
      [url |-> "hiroakit/stock-list",
       content |-> <<"code,name", "7203,TOYOTA MOTOR", "1301,KYOKUYO">>]>>

\* Where _write_symbol_master can fail: nowhere; before the list file is
\* opened (makedirs, open); in f.write, after open(.., 'w') has emptied the
\* file; when the metadata file is opened, after the list is written.
WriteFaults == {"none", "open", "write", "meta"}

\* _write_symbol_master at time t: the two files after the call and what it
\* returns; every exception ends in (False, message, 0).
write_symbol_master(csv, meta, content, t, fault) ==
    CASE fault = "none" ->
            [csv |-> [exists |-> TRUE, content |-> content],
             meta |-> [exists |-> TRUE, lastUpdated |-> t],
             ret |-> [ok |-> TRUE, msg |-> "saved", count |-> Len(content)]]
      [] fault = "open" ->
            [csv |-> csv, meta |-> meta,
             ret |-> [ok |-> FALSE, msg |-> "save failed", count |-> 0]]
      [] fault = "write" ->
            [csv |-> [exists |-> TRUE, content |-> <<>>], meta |-> meta,
             ret |-> [ok |-> FALSE, msg |-> "save failed", count |-> 0]]
      [] fault = "meta" ->
            [csv |-> [exists |-> TRUE, content |-> content], meta |-> meta,
             ret |-> [ok |-> FALSE, msg |-> "save failed", count |-> 0]]

\* update_symbol_master from mirror i on: a mirror that cannot be fetched is
\* skipped; the first one fetched is saved and the result of the save is
\* returned, whatever it is.
RECURSIVE UpdateFrom(_, _, _, _, _, _)
UpdateFrom(i, csv, meta, up, t, fault) ==
    IF i > Len(Mirrors)
    THEN [csv |-> csv, meta |-> meta, tried |-> <<>>,
          ret |-> [ok |-> FALSE, msg |-> "fetch failed", count |-> 0]]
    ELSE IF up[i]
    THEN LET w == write_symbol_master(csv, meta, Mirrors[i].content, t, fault)
         IN [csv |-> w.csv, meta |-> w.meta, tried |-> <<i>>, ret |-> w.ret]
    ELSE LET rest == UpdateFrom(i + 1, csv, meta, up, t, fault)
         IN [rest EXCEPT !.tried = <<i>> \o rest.tried]

update_symbol_master(csv, meta, up, t, fault) ==
    UpdateFrom(1, csv, meta, up, t, fault)

\* Before the first refresh there is no cache, or one of an earlier day.
InitMaster ==
    /\ faults = 0
    /\ trades_json = [kind |-> "missing", items |-> <<>>]
    /\ heap = <<>>
    /\ simple_trades = <<>>
    /\ undo_stack = <<>>
    /\ selected = "2025-10-01"
    /\ input_visible = FALSE
    /\ lastOp = "init"
    /\ undid = ""
    /\ ret = FALSE
    /\ pre = <<>>
    /\ target = 0
    /\ uploaded = <<>>
    /\ TaxInit
    /\ RunInit
    /\ SearchInit
    /\ DataInit
    /\ \/ MasterInit
       \/ /\ symbols_csv = [exists |-> TRUE, content |-> <<"code,name", "9984,SOFTBANK GROUP">>]
          /\ symbols_meta = [exists |-> TRUE, lastUpdated |-> 0]
          /\ refreshed = [ok |-> FALSE, msg |-> "", count |-> 0]
          /\ tried = <<>>
          /\ now = 0

\* The refresh button: up[i] tells whether mirror i can be fetched now.
UpdateSymbolMaster(up, fault) ==
    /\ now < MaxRefresh
    /\ now' = now + 1
    /\ LET r == update_symbol_master(symbols_csv, symbols_meta, up, now', fault)
       IN /\ symbols_csv' = r.csv
          /\ symbols_meta' = r.meta
          /\ refreshed' = r.ret
          /\ tried' = r.tried
    /\ lastOp' = "refresh"
    /\ UNCHANGED <<heap, simple_trades, undo_stack, trades_json, selected,
                   input_visible, faults, undid, ret, pre, target, uploaded,
                   taxVars, runVars, searchVars, dataVars>>

NextMaster ==
    \E up \in [1..Len(Mirrors) -> BOOLEAN], fault \in WriteFaults :
        UpdateSymbolMaster(up, fault)

SpecMaster == InitMaster /\ [][NextMaster]_vars

\* ---- properties
Last(s) == s[Len(s)]

Front(s) == SubSeq(s, 1, Len(s) - 1)

\* s without its j-th element.
Without(s, j) == [i \in 1..(Len(s) - 1) |-> IF i < j THEN s[i] ELSE s[i + 1]]

\* profit == (sell - buy) * quantity, from the entry's own stored values.
Consistent(t) == t.profit = (t.sell - t.buy) * t.quantity

\* Position i of the ledger was created or changed by the last operation.
Touched(i) == i > Len(pre) \/ Ledger[i] # pre[i]

\* The first position of the ledger before the operation whose six fields
\* equal those of the row that was clicked.
FirstEqual == CHOOSE j \in 1..Len(pre) :
                  /\ pre[j] = pre[target]
                  /\ \A k \in 1..(j - 1) : pre[k] # pre[target]

\* C1: a snapshot-pushing mutation (update, delete, duplicate, import of at
\* least one row) followed by undo leaves the ledger as it was before the
\* mutation: same entries, same field values, same order.
C1_UndoInverse ==
    (lastOp = "undo" /\ undid \in PushOps) => (ret /\ Ledger = pre)

\* C1 witness: a delete was undone and the deleted entry is back.
C1_Witness ==
    /\ lastOp = "undo"
    /\ undid = "delete"
    /\ Ledger = pre
    /\ Len(Ledger) > 0

\* C2: right after an add or an update, the entry it created or changed has
\* profit == (sell - buy) * quantity.
C2_ProfitAfterAddEdit ==
    lastOp \in {"add", "update"} =>
        \A i \in 1..Len(Ledger) : Touched(i) => Consistent(Ledger[i])

\* C2 witness: an update changed an entry to quantity -1 with profit
\* (0 - 1) * -1.
C2_Witness ==
    /\ lastOp = "update"
    /\ \E i \in 1..Len(Ledger) :
          /\ Touched(i)
          /\ Ledger[i].quantity = -1
          /\ Ledger[i].profit = 1

\* C3 as stated: after add, update, duplicate or import, every entry the
\* operation created or changed has profit == (sell - buy) * quantity, also
\* for imported rows that carry their own profit.
C3_ProfitAfterAnyOp ==
    lastOp \in {"add", "update", "duplicate", "import"} =>
        \A i \in 1..Len(Ledger) : Touched(i) => Consistent(Ledger[i])

\* The rows of a file that import accepts: a date and no unparsable number.
Accepted(r) ==
    /\ r.date # ""
    /\ r.buy.kind # "bad" /\ r.sell.kind # "bad"
    /\ r.quantity.kind # "bad" /\ r.profit.kind # "bad"

\* C3 as amended: add and update leave the entry consistent; an imported
\* row keeps its own profit when it has one, gets the computed profit when
\* its profit is empty and buy and sell are given, and profit 0 otherwise;
\* duplicate copies the profit of the original.
C3_ProfitWhereRecomputed ==
    /\ lastOp \in {"add", "update"} =>
          \A i \in 1..Len(Ledger) : Touched(i) => Consistent(Ledger[i])
    /\ lastOp = "import" =>
          LET rows == SelectSeq(uploaded, Accepted)
          IN /\ Len(Ledger) = Len(pre) + Len(rows)
             /\ \A k \in 1..Len(rows) :
                   LET r == rows[k]
                       t == Ledger[Len(pre) + k]
                   IN IF r.profit.kind = "num"
                      THEN t.profit = r.profit.val
                      ELSE IF r.buy.kind = "num" /\ r.sell.kind = "num"
                           THEN Consistent(t)
                           ELSE t.profit = 0
    /\ lastOp = "duplicate" =>
          Last(Ledger).profit = pre[target].profit

\* C3 witness: an imported row kept its own profit 5, which is not
\* (sell - buy) * quantity.
C3_Witness ==
    /\ lastOp = "import"
    /\ Len(Ledger) = Len(pre) + 1
    /\ Last(Ledger).profit = 5
    /\ ~Consistent(Last(Ledger))

\* C4: _pop_undo on an empty stack returns false and changes neither the
\* ledger nor the stack; on a non-empty stack it returns true, removes
\* exactly the last snapshot and makes the ledger that snapshot's contents.
C4_PopUndo ==
    [][lastOp' = "pop" =>
          IF undo_stack = <<>>
          THEN /\ ret' = FALSE
               /\ Ledger' = Ledger
               /\ undo_stack' = undo_stack
          ELSE /\ ret' = TRUE
               /\ undo_stack' = Front(undo_stack)
               /\ json_dumps(Ledger') = Last(undo_stack)]_vars

\* C4 witness: _pop_undo ran on an empty stack with a non-empty ledger.
C4_Witness ==
    /\ lastOp = "pop"
    /\ ret = FALSE
    /\ undo_stack = <<>>
    /\ Ledger = pre
    /\ Ledger # <<>>

\* C5: a destructive mutation never changes the ledger without the snapshot
\* of the ledger before it on top of the undo stack, also when capturing
\* the snapshot fails.
C5_NoChangeWithoutSnapshot ==
    (lastOp \in PushOps /\ Ledger # pre) =>
        (undo_stack # <<>> /\ Last(undo_stack) = json_dumps(pre))

\* C6: delete pushes the snapshot of the ledger before it and removes
\* exactly one entry, the first whose six fields equal the clicked row's;
\* the others keep their values and order, also among identical entries.
C6_DeleteFirstMatch ==
    lastOp = "delete" =>
        /\ undo_stack # <<>>
        /\ Last(undo_stack) = json_dumps(pre)
        /\ Len(Ledger) = Len(pre) - 1
        /\ Ledger = Without(pre, FirstEqual)

\* C6 witness: of two identical entries the second row was clicked and one
\* entry is left.
C6_Witness ==
    /\ lastOp = "delete"
    /\ Len(pre) = 2
    /\ pre[1] = pre[2]
    /\ target = 2
    /\ Ledger = <<pre[1]>>

\* C7: duplicate pushes the snapshot of the ledger before it and appends a
\* new entry with the six fields of the original; the copy is independent:
\* an update changes no entry but the one it was clicked on.
C7_DuplicateIndependent ==
    /\ lastOp = "duplicate" =>
          /\ undo_stack # <<>>
          /\ Last(undo_stack) = json_dumps(pre)
          /\ Ledger = Append(pre, pre[target])
    /\ lastOp = "update" =>
          /\ Len(Ledger) = Len(pre)
          /\ \A i \in 1..Len(pre) : i # target => Ledger[i] = pre[i]

\* C7 witness: a duplicate appended a copy of the clicked row.
C7_Witness ==
    /\ lastOp = "duplicate"
    /\ Len(Ledger) = Len(pre) + 1
    /\ Last(Ledger) = pre[target]
    /\ Last(undo_stack) = json_dumps(pre)

\* C8 as stated: update patches the first entry whose six fields equal the
\* clicked row's, and only that entry changes.
C8_UpdateFirstMatch ==
    lastOp = "update" =>
        /\ undo_stack # <<>>
        /\ Last(undo_stack) = json_dumps(pre)
        /\ Len(Ledger) = Len(pre)
        /\ Ledger[FirstEqual].date = pre[FirstEqual].date
        /\ Consistent(Ledger[FirstEqual])
        /\ \A i \in 1..Len(pre) : i # FirstEqual => Ledger[i] = pre[i]

\* C8 as amended: update patches the entry of the clicked row itself (the
\* object, not the first entry with equal fields); its date and position
\* are kept, its profit is recomputed, and every other entry is unchanged.
C8_UpdateClickedEntry ==
    lastOp = "update" =>
        /\ undo_stack # <<>>
        /\ Last(undo_stack) = json_dumps(pre)
        /\ Len(Ledger) = Len(pre)
        /\ Ledger[target].date = pre[target].date
        /\ Consistent(Ledger[target])
        /\ \A i \in 1..Len(pre) : i # target => Ledger[i] = pre[i]

\* C8 witness: of two identical entries the second was updated and the
\* first is unchanged.
C8_Witness ==
    /\ lastOp = "update"
    /\ Len(pre) = 2
    /\ pre[1] = pre[2]
    /\ target = 2
    /\ Ledger[1] = pre[1]
    /\ Ledger[2] # pre[2]

\* C9: with file writes succeeding, after every ledger-changing operation
\* (add, update, delete, duplicate, import, undo) the file's items equal
\* the ledger, so a new session loads the ledger the user last saw.
C9_FileMatchesLedger ==
    lastOp \in {"add", "update", "delete", "duplicate", "import", "undo"} =>
        /\ trades_json.kind = "ok"
        /\ trades_json.items = json_dumps(Ledger)
        /\ InitialLoad(<<>>, trades_json) = Ledger

\* C10: the undo stack changes only by a snapshot-pushing mutation, which
\* appends the snapshot of the ledger just before it, and by undo, which
\* removes the last snapshot and restores it; snapshots on the stack are
\* never altered.
C10_StackDiscipline ==
    [][/\ Undo => /\ undo_stack' = Front(undo_stack)
                  /\ json_dumps(Ledger') = Last(undo_stack)
       /\ ~Undo => \/ undo_stack' = undo_stack
                   \/ /\ lastOp' \in PushOps
                      /\ undo_stack' = Append(undo_stack, json_dumps(Ledger))]_vars

\* C10 witness: after an in-place update the snapshot on the stack still
\* holds the ledger as it was before the update.
C10_Witness ==
    /\ lastOp = "update"
    /\ Ledger # pre
    /\ Last(undo_stack) = json_dumps(pre)
    /\ json_dumps(Ledger) # Last(undo_stack)

\* The amount an entry counts for under the tax settings of the last run:
\* its profit, net of tax on a gain when tax is on.
Amount(t) ==
    IF use_tax /\ t.profit > 0
    THEN t.profit - (tax_rate * t.profit) \div RateDen
    ELSE t.profit

\* The sum of the amounts of the entries at the positions in S.
RECURSIVE SumEntries(_, _)
SumEntries(trades, S) ==
    IF S = {} THEN 0
    ELSE LET i == CHOOSE j \in S : TRUE
         IN Amount(trades[i]) + SumEntries(trades, S \ {i})

\* The sum of f over the keys in S.
RECURSIVE SumKeys(_, _)
SumKeys(f, S) ==
    IF S = {} THEN 0
    ELSE LET k == CHOOSE j \in S : TRUE
         IN f[k] + SumKeys(f, S \ {k})

\* The positions of the entries dated d.
On(d) == {i \in 1..Len(Ledger) : Ledger[i].date = d}

\* The calendar dates of the model.
CalendarDates == {"2025-10-01", "2025-10-02", "2025-11-01", "2024-10-01"}

\* C11: for every date d, the daily totals map d to the sum over exactly the
\* entries dated d of the profit (tax off) or of the net-of-tax profit taken
\* per entry (tax on); a date with no entry is not a key.
C11_DailyTotals ==
    \A d \in CalendarDates :
        IF On(d) = {} THEN d \notin DOMAIN totals
        ELSE /\ d \in DOMAIN totals
             /\ totals[d] = SumEntries(Ledger, On(d))

\* C11 witness: two gains of 100 on one day, taxed at 20/100 each, total 160.
C11_Witness ==
    /\ use_tax
    /\ tax_rate = 20
    /\ Cardinality(On("2025-10-01")) = 2
    /\ "2025-10-01" \in DOMAIN totals
    /\ totals["2025-10-01"] = 160

\* C12: an entry whose date is not a parsable calendar date (empty or
\* malformed) creates no key of the daily totals and adds to none.
C12_SkipsUnparsable ==
    /\ \A d \in DOMAIN totals : fromisoformat(d).ok
    /\ \A d \in DOMAIN totals : totals[d] = SumEntries(Ledger, On(d))

\* C13: the month total of the viewed month equals the sum of the daily
\* totals over the keys whose date lies in that month of that year.
C13_MonthIsSumOfDays ==
    month_total =
        SumKeys(totals, {d \in DOMAIN totals :
                            /\ fromisoformat(d).ok
                            /\ fromisoformat(d).year = view_year
                            /\ fromisoformat(d).month = view_month})

\* C13 witness: October 2025 in view with two days that have entries and an
\* entry of October 2024; the month total is the one gain net of tax.
C13_Witness ==
    /\ view_year = 2025 /\ view_month = 10
    /\ use_tax /\ tax_rate = 20
    /\ DOMAIN totals = {"2025-10-01", "2024-10-01"}
    /\ month_total = 80

\* C14: the year total of the viewed year equals the sum over the twelve
\* months of the month total of that year and month.
C14_YearIsSumOfMonths ==
    LET M == [m \in 1..12 |->
                 MonthYearTotals(Ledger, view_year, m, use_tax, tax_rate).month]
    IN year_total = SumKeys(M, 1..12)

\* C14 witness: a gain in October and a loss in November 2025 add up to the
\* year total, of which the viewed month holds only a part.
C14_Witness ==
    /\ view_year = 2025
    /\ use_tax /\ tax_rate = 20
    /\ On("2025-10-01") # {} /\ On("2025-11-01") # {}
    /\ year_total = -20
    /\ month_total # year_total

\* C15: netAfterTax(amount, rate) is amount - rate * amount for a gain and
\* the amount itself for a loss or zero, for every rate in [0,1]; seen in the
\* total of a day with a single entry: 100 at 20/100 gives 80, -100 gives
\* -100, 0 gives 0.
C15_NetAfterTax ==
    (use_tax /\ tax_rate \in 0..RateDen) =>
        \A d \in CalendarDates :
            Cardinality(On(d)) = 1 =>
                LET a == Ledger[CHOOSE i \in On(d) : TRUE].profit
                IN /\ a > 0 => totals[d] * RateDen = a * RateDen - tax_rate * a
                   /\ a <= 0 => totals[d] = a
                   /\ (a = 100 /\ tax_rate = 20) => totals[d] = 80
                   /\ a = -100 => totals[d] = -100
                   /\ a = 0 => totals[d] = 0

\* C15 witness: at rate 20/100 a gain of 100 counts 80 and a loss of 100
\* counts -100.
C15_Witness ==
    /\ use_tax /\ tax_rate = 20
    /\ Ledger = <<TotalsEntry("2025-10-01", 100), TotalsEntry("2025-11-01", -100)>>
    /\ totals["2025-10-01"] = 80
    /\ totals["2025-11-01"] = -100

\* C16 as stated: the rate used by the aggregation is within [0,1], and a
\* rate configured outside [0,1] is rejected with a ConfigError.
C16_RejectedWithConfigError ==
    /\ tax_rate \in 0..RateDen
    /\ (lastOp = "rate" /\ tax_input \notin 0..RateDen) => raised = "ConfigError"

\* C16 as amended: the rate used by the aggregation and the rate the session
\* holds are within [0,1]; a percent typed outside 0..100 is not stored (the
\* rate input is bounded) and no ConfigError is raised.
C16_RateWithinRange ==
    /\ tax_rate \in 0..RateDen
    /\ get_tax_rate(session_tax_rate) \in 0..RateDen
    /\ raised # "ConfigError"
    /\ (lastOp = "rate" /\ tax_input \notin 0..RateDen) =>
           session_tax_rate.v # tax_input

\* C16 witness: 150 percent was typed and a later run used the rate 100/100.
C16_Witness ==
    /\ lastOp = "run"
    /\ tax_input = 150
    /\ tax_rate = RateDen
    /\ raised = ""

\* C17: every ledger entry has buy, sell and quantity of at least zero.
C17_NonNegative ==
    \A i \in 1..Len(Ledger) :
        /\ Ledger[i].buy >= 0
        /\ Ledger[i].sell >= 0
        /\ Ledger[i].quantity >= 0

\* The symbols of the labels of a result.
Syms(labels) == [k \in 1..Len(labels) |-> labels[k].sym]

NoDuplicate(x) == \A i, j \in 1..Len(x) : x[i] = x[j] => i = j

\* The matching predicate: the normalised query is part of the normalised
\* name or of the lower-cased symbol.
Predicate(q, sym, name) ==
    LET qn == norm_ja(strip(q))
    IN Contains(qn, norm_ja(name)) \/ Contains(qn, lower(sym))

\* The candidates each source offers for the term, by the source's own rule.
FromMaster == {<<master[i][1], master[i][2]>> : i \in
                  {i \in 1..Len(master) : Predicate(term, master[i][1], master[i][2])}}

FromCatalog == {OFFLINE_SYMBOLS[i] : i \in
                  {i \in 1..Len(OFFLINE_SYMBOLS) :
                      Predicate(term, OFFLINE_SYMBOLS[i][1], OFFLINE_SYMBOLS[i][2])}}

FromAlias == {<<romaji_alias[i][2], romaji_alias[i][3]>> : i \in
                 {i \in 1..Len(romaji_alias) :
                     /\ clean_ascii(strip(term)) # <<>>
                     /\ Contains(clean_ascii(strip(term)),
                                 clean_ascii(romaji_alias[i][1]))}}

FromRemote == IF quotes.ok
              THEN {<<quotes.quotes[i].symbol, quotes.quotes[i].name>> : i \in
                      {i \in 1..Len(quotes.quotes) :
                          quotes.quotes[i].quoteType = "EQUITY"}}
              ELSE {}

FromHistory == {<<Chars(Ledger[i].symbol), NameOf(Chars(Ledger[i].symbol))>> : i \in
                   {i \in 1..Len(Ledger) :
                       /\ Chars(Ledger[i].symbol) # <<>>
                       /\ Predicate(term, Chars(Ledger[i].symbol),
                                    NameOf(Chars(Ledger[i].symbol)))}}

Offers(S, sym) == \E c \in S : c[1] = sym

\* The place of a symbol's first source, in the order of the specification
\* (catalog, master, alias, remote, history) and in the order of the merge
\* loop (master, catalog, alias, remote, history).
SpecRank(sym) ==
    IF Offers(FromCatalog, sym) THEN 1
    ELSE IF Offers(FromMaster, sym) THEN 2
    ELSE IF Offers(FromAlias, sym) THEN 3
    ELSE IF Offers(FromRemote, sym) THEN 4
    ELSE 5

MergeRank(sym) ==
    IF Offers(FromMaster, sym) THEN 1
    ELSE IF Offers(FromCatalog, sym) THEN 2
    ELSE IF Offers(FromAlias, sym) THEN 3
    ELSE IF Offers(FromRemote, sym) THEN 4
    ELSE 5

\* C18: a result never holds a symbol twice and never more than 20 entries,
\* in the search box and in the unified dropdown; of a symbol that several
\* sources offer the search box keeps the entry of the first of them.
C18_NoDuplicateAtMost20 ==
    /\ NoDuplicate(Syms(combined))
    /\ Len(combined) <= 20
    /\ NoDuplicate(items_combined)
    /\ Len(items_combined) <= 20
    /\ \A k \in 1..Len(combined) :
          LET c == <<combined[k].sym, combined[k].name>>
          IN CASE MergeRank(c[1]) = 1 -> c \in FromMaster
               [] MergeRank(c[1]) = 2 -> c \in FromCatalog
               [] MergeRank(c[1]) = 3 -> c \in FromAlias
               [] MergeRank(c[1]) = 4 -> c \in FromRemote
               [] OTHER -> c \in FromHistory

\* C19 as stated: the sources are merged in the order catalog, master,
\* alias, remote, history, and a symbol of both the catalog and the master
\* list is shown with the catalog's name.
C19_CatalogBeforeMaster ==
    /\ \A i, j \in 1..Len(combined) :
          i < j => SpecRank(combined[i].sym) <= SpecRank(combined[j].sym)
    /\ \A k \in 1..Len(combined) :
          (Offers(FromCatalog, combined[k].sym) /\ Offers(FromMaster, combined[k].sym))
              => <<combined[k].sym, combined[k].name>> \in FromCatalog

\* C19 as amended: the sources are merged in the order master, catalog,
\* alias, remote, history, and a symbol of both the catalog and the master
\* list is shown with the master list's name.
C19_MasterBeforeCatalog ==
    /\ \A i, j \in 1..Len(combined) :
          i < j => MergeRank(combined[i].sym) <= MergeRank(combined[j].sym)
    /\ \A k \in 1..Len(combined) :
          (Offers(FromCatalog, combined[k].sym) /\ Offers(FromMaster, combined[k].sym))
              => <<combined[k].sym, combined[k].name>> \in FromMaster

\* C19 witness: for "t" the two rows of the master list come first, 7203.T
\* under the master's name, and the catalog's next symbol follows.
C19_Witness ==
    /\ term = TextT
    /\ master = MasterSmall
    /\ Len(combined) = MaxCombined
    /\ combined[1] = Label(Sym7203, NameMaster)
    /\ combined[3].sym = OFFLINE_SYMBOLS[2][1]

\* C20 as stated: every candidate of a result satisfies the matching
\* predicate, and the result for "7203" holds 7203.T.
C20_AllMatchPredicate ==
    /\ \A k \in 1..Len(combined) :
          Predicate(term, combined[k].sym, combined[k].name)
    /\ (lastOp = "search" /\ strip(term) = Text7203) =>
          Sym7203 \in Range(Syms(combined))

\* C20 as amended: a candidate satisfies the matching predicate unless it
\* comes from the alias table (the cleaned term is part of the cleaned
\* alias) or from the remote search (an EQUITY quote of the answer); the
\* result for "7203" holds 7203.T while fewer than 20 master rows match.
C20_MatchBySource ==
    /\ \A k \in 1..Len(combined) :
          \/ Predicate(term, combined[k].sym, combined[k].name)
          \/ <<combined[k].sym, combined[k].name>> \in FromAlias
          \/ <<combined[k].sym, combined[k].name>> \in FromRemote
    /\ (lastOp = "search" /\ strip(term) = Text7203
            /\ Cardinality(FromMaster) < MaxCombined) =>
          Sym7203 \in Range(Syms(combined))

\* C20 witness: "toyota" finds 7203.T through the alias table, under a name
\* and a symbol that do not contain the term.
C20_Witness ==
    /\ term = TextToyota
    /\ master = <<>>
    /\ ~quotes.ok
    /\ combined = <<Label(Sym7203, NameOf(Sym7203))>>
    /\ ~Predicate(term, Sym7203, NameOf(Sym7203))

\* ---- C21: the normalisation of a search text

\* The text the last search normalised: the stripped text of the field.
Searched == IF lastOp = "search" THEN strip(term) ELSE query

\* What the normalisation makes of one character.
Fold(c) ==
    IF 12449 <= c /\ c <= 12534 THEN c - 96     \* U+30A1..U+30F6, 0x60
    ELSE lower_ch(c)

\* C21: the normalised text of a search maps every katakana character
\* U+30A1..U+30F6 of the searched text to the hiragana 0x60 below it and
\* every other character to its lower case; the katakana to-yo-ta is
\* normalised to the hiragana to-yo-ta, which is its own normal form; and
\* normalising the normalised text again changes nothing.
C21_Normalize ==
    lastOp \in {"search", "dropdown"} =>
        /\ Len(qnorm) = Len(Searched)
        /\ \A i \in 1..Len(qnorm) : qnorm[i] = Fold(Searched[i])
        /\ (Searched = TextToyotaKatakana => qnorm = TextToyotaKana)
        /\ (Searched = TextToyotaKana => qnorm = TextToyotaKana)
        /\ norm_ja(qnorm) = qnorm

\* C21 witness: the katakana to-yo-ta was searched and normalised to the
\* hiragana to-yo-ta.
C21_Witness ==
    /\ lastOp = "search"
    /\ term = TextToyotaKatakana
    /\ qnorm = TextToyotaKana
    /\ qnorm # lower(term)

\* ---- C22, C23: what the import makes of the rows of a file

\* The indices of the rows of a file that satisfy Test, in file order.
Indices(data, Test(_)) ==
    SelectSeq([i \in 1..Len(data) |-> i], LAMBDA i : Test(data[i]))

Rejected(r) == ~Accepted(r)

Parsed == lastOp \in {"parse", "reimport"}

\* C22 as stated: every imported row with an absent or empty profit cell
\* gets profit = (sell - buy) * quantity, whether or not its buy and sell
\* cells are given, and every other row keeps its own profit; the sample
\* row imports with profit 10000.
C22_ComputedWheneverProfitEmpty ==
    Parsed /\ Len(parsed_rows) = Len(Indices(uploaded, Accepted)) =>
        \A j \in 1..Len(parsed_rows) :
            LET r == uploaded[Indices(uploaded, Accepted)[j]]
                e == parsed_rows[j]
            IN /\ (r.profit.kind = "empty" =>
                      e.profit = (e.sell - e.buy) * e.quantity)
               /\ (r.profit.kind = "num" => e.profit = r.profit.val)
               /\ (r = RowSample => e.profit = 10000)

\* C22 as amended: an imported row with an absent or empty profit cell gets
\* profit = (sell - buy) * quantity when its buy and sell cells are both
\* given, and profit 0 when one of them is empty; every other row keeps its
\* own profit; the sample row imports with profit 10000.
C22_ComputedWhenBuyAndSellGiven ==
    Parsed /\ Len(parsed_rows) = Len(Indices(uploaded, Accepted)) =>
        \A j \in 1..Len(parsed_rows) :
            LET r == uploaded[Indices(uploaded, Accepted)[j]]
                e == parsed_rows[j]
                given == r.buy.kind = "num" /\ r.sell.kind = "num"
            IN /\ (r.profit.kind = "empty" /\ given =>
                      e.profit = (e.sell - e.buy) * e.quantity)
               /\ (r.profit.kind = "empty" /\ ~given => e.profit = 0)
               /\ (r.profit.kind = "num" => e.profit = r.profit.val)
               /\ (r = RowSample => e.profit = 10000)

\* C22 witness: the sample row was imported with profit 10000, computed
\* from its buy, sell and quantity.
C22_Witness ==
    /\ lastOp = "parse"
    /\ uploaded = <<RowSample>>
    /\ Len(parsed_rows) = 1
    /\ parsed_rows[1].profit = 10000
    /\ parsed_rows[1].quantity = 100

\* C23: of the n data rows of a file, k of them unparsable (no date, or a
\* numeric cell that is not a number), the import returns n - k entries,
\* those of the parsable rows in file order, and k errors, the j-th naming
\* the index of the j-th unparsable row; rows after an unparsable one are
\* imported all the same.
C23_PartialSuccess ==
    Parsed =>
        LET good == Indices(uploaded, Accepted)
            bad == Indices(uploaded, Rejected)
        IN /\ Len(good) + Len(bad) = Len(uploaded)
           /\ Len(parsed_rows) = Len(uploaded) - Len(bad)
           /\ Len(parsed_errs) = Len(bad)
           /\ \A j \in 1..Len(parsed_errs) : parsed_errs[j].row = bad[j]
           /\ \A j \in 1..Len(parsed_rows) :
                 /\ ParseRow(good[j], uploaded[good[j]]).ok
                 /\ parsed_rows[j] = ParseRow(good[j], uploaded[good[j]]).row

\* C23 witness: a file whose first and last rows are unparsable and whose
\* second row is imported.
C23_Witness ==
    /\ lastOp = "parse"
    /\ uploaded = <<RowBadProfit, RowSample, RowNoDate>>
    /\ Len(parsed_rows) = 1
    /\ parsed_rows[1].profit = 10000
    /\ Len(parsed_errs) = 2
    /\ parsed_errs[1].row = 1
    /\ parsed_errs[2].row = 3

\* ---- C24: export, then import

\* How often e occurs in a list of entries.
Count(list, e) == Cardinality({i \in 1..Len(list) : list[i] = e})

SameEntries(a, b) ==
    /\ Len(a) = Len(b)
    /\ \A e \in Range(a) \cup Range(b) : Count(a, e) = Count(b, e)

\* A date the import keeps as it is: not empty and no longer than a day.
DayText(d) == d # "" /\ Prefix10(d) = d

\* C24 as stated: importing the exported text of any ledger returns the
\* ledger's entries, each as often as the ledger holds it, entries with an
\* empty symbol, an empty date or profit 0 with buy # sell included.
C24_RoundTripAnyLedger ==
    lastOp = "reimport" => SameEntries(parsed_rows, Ledger)

\* C24 as amended: importing the exported text of a ledger whose entries
\* all have a non-empty date of at most 10 characters and a symbol without
\* blanks around it returns the ledger's entries, each as often as the
\* ledger holds it, entries with an empty symbol or profit 0 with
\* buy # sell included; an entry with an empty date is exported, but the
\* import rejects its row with an error.
C24_RoundTripDated ==
    lastOp = "reimport" =>
        /\ ((\A i \in 1..Len(Ledger) :
                 DayText(Ledger[i].date) /\ Strip(Ledger[i].symbol) = Ledger[i].symbol)
                => SameEntries(parsed_rows, Ledger) /\ parsed_errs = <<>>)
        /\ Len(csv_text) = Len(Ledger)
        /\ \A i \in 1..Len(Ledger) :
              Ledger[i].date = "" =>
                  \E j \in 1..Len(parsed_errs) : parsed_errs[j].row = i

\* C24 witness: a ledger with an entry without symbol and an entry with
\* profit 0 and buy # sell was exported and imported again.
C24_Witness ==
    /\ lastOp = "reimport"
    /\ Len(Ledger) = 2
    /\ Ledger[1].symbol = ""
    /\ Ledger[2].profit = 0 /\ Ledger[2].buy # Ledger[2].sell
    /\ parsed_rows = Ledger

\* ---- C25: the load of the snapshot file

\* C25: the load returns the items of the file when the file exists, can
\* be read, is JSON, and has an object at its root whose items is a list;
\* in every other case (no file, unreadable, not JSON, root not an object,
\* no items, items not a list) it returns the empty list.
C25_LoadItemsOrEmpty ==
    lastOp = "load" =>
        IF trades_json.kind = "ok"
        THEN /\ Len(load_ret) = Len(trades_json.items)
             /\ \A i \in 1..Len(load_ret) :
                   EncodeEntry(load_ret[i]) = trades_json.items[i]
        ELSE load_ret = <<>>

\* C25 witness: the file holds an object whose items is not a list, and the
\* load returned the empty list.
C25_Witness ==
    /\ lastOp = "load"
    /\ trades_json.kind = "itemsnotlist"
    /\ trades_json.items # <<>>
    /\ load_ret = <<>>

\* ---- C26: the refresh of the master list

\* C26: a refresh fetches from the mirrors in their order; when it reports
\* success the cache holds the list of the last mirror it tried, dated now;
\* it goes on to the next mirror after any failure, of the fetch or of the
\* save, so that it reports failure only after it tried every mirror; and
\* when it reports failure the list file and the metadata file are as they
\* were before.
C26_FallThroughCacheKept ==
    [][lastOp' = "refresh" /\ now' # now =>
          /\ \A j \in 1..Len(tried') : tried'[j] = j
          /\ (refreshed'.ok =>
                 /\ tried' # <<>>
                 /\ symbols_csv' = [exists |-> TRUE,
                                    content |-> Mirrors[Last(tried')].content]
                 /\ symbols_meta' = [exists |-> TRUE, lastUpdated |-> now'])
          /\ (~refreshed'.ok =>
                 /\ Len(tried') = Len(Mirrors)
                 /\ symbols_csv' = symbols_csv
                 /\ symbols_meta' = symbols_meta)]_vars

\* ---- C27: add and undo

\* A step of the form save (no other step sets lastOp to "add", and every
\* form save allocates an entry).
AddStep == lastOp' = "add" /\ heap' # heap

\* An undo while the last mutation of the ledger is an add.
UndoAfterAdd == lastOp = "add" /\ lastOp' = "undo"

\* What add and undo do according to both readings of C27: the add appends
\* one entry for the selected day and leaves the stack alone; the undo
\* after it needs a snapshot, takes the newest one off the stack and
\* replaces the whole ledger by it.
AddThenUndo ==
    /\ (AddStep =>
          /\ Len(Ledger') = Len(Ledger) + 1
          /\ Front(Ledger') = Ledger
          /\ Last(Ledger').date = selected
          /\ undo_stack' = undo_stack)
    /\ (UndoAfterAdd =>
          /\ undo_stack # <<>>
          /\ undo_stack' = Front(undo_stack)
          /\ Ledger' = json_loads(Last(undo_stack)))
    /\ (lastOp = "add" /\ undo_stack = <<>> => lastOp' # "undo")

\* C27 as stated: add appends the entry and pushes no snapshot; an undo
\* after an add restores the newest snapshot, which is never the ledger as
\* it was just before the add; with an empty stack there is no undo.
C27_UndoNeverPreAdd ==
    [][AddThenUndo /\ (UndoAfterAdd => Ledger' # pre)]_vars

\* C27 as amended: add appends the entry and pushes no snapshot; an undo
\* after an add restores the newest snapshot on the stack, that of the
\* most recent earlier mutation that pushed one and was not undone, and
\* discards the added entry together with that mutation; with an empty
\* stack there is no undo.  (The snapshot may hold the very entries the
\* ledger had before the add.)
C27_UndoRestoresNewestSnapshot ==
    [][AddThenUndo]_vars

\* C27 witness: an undo after an add went back past the add and past the
\* mutation before it.
C27_Witness ==
    /\ lastOp = "undo"
    /\ undid = "add"
    /\ ret
    /\ Ledger # <<>>

====
